---- MODULE Spec2Model ----
(***************************************************************************)
(* Data fusion and statistics engine of the solar-flare / stock-volatility *)
(* dashboard: mergeDatasets, calculateCorrelation, the statistics helpers  *)
(* and the getDashboardData orchestration around them.                     *)
(*                                                                         *)
(* JavaScript numbers are IEEE-754 binary floating point.  The model keeps *)
(* that arithmetic, scaled down: a finite number is an integer count of    *)
(* units of 2^-FracBits whose significand fits in MantBits bits, every     *)
(* operation rounds its exact result to the nearest such number (ties to   *)
(* even), a result beyond MaxFinite becomes an infinity, and the invalid   *)
(* operations yield NaN.  A value that is not of type number (null,        *)
(* undefined) is the value Null.                                           *)
(***************************************************************************)
EXTENDS Integers, Sequences, FiniteSets, TLC

\* ------------------------------------------------------------------------
\* Bounds of the model
\* ------------------------------------------------------------------------
\* Bits of significand of the scaled-down floating-point format.
MantBits == 3
\* Bits after the binary point of the smallest unit (the subnormal spacing).
FracBits == 4
\* Largest binary exponent (in units) of a finite number.
MaxExp == 8
\* Longest input array of calculateCorrelation and of the statistics helpers.
MaxLen == 3

\* ------------------------------------------------------------------------
\* Numbers
\* ------------------------------------------------------------------------
Unit == 2 ^ FracBits
MaxFinite == (2 ^ MantBits - 1) * 2 ^ MaxExp

Fin(v) == [k |-> "fin", v |-> v]
NaN == [k |-> "nan", v |-> 0]
PosInf == [k |-> "inf", v |-> 1]
NegInf == [k |-> "inf", v |-> -1]
Null == [k |-> "null", v |-> 0]
Inf(sign) == IF sign < 0 THEN NegInf ELSE PosInf

Abs(i) == IF i < 0 THEN -i ELSE i
Sgn(i) == IF i < 0 THEN -1 ELSE IF i > 0 THEN 1 ELSE 0
\* Sign of a number that is not NaN: -1, 0 or 1.
SignOf(a) == Sgn(a.v)

RECURSIVE Shift(_)
\* How many low-order bits an integer magnitude q loses to fit the significand.
Shift(q) == IF q < 2 ^ MantBits THEN 0 ELSE 1 + Shift(q \div 2)

\* The exact rational a / b (b > 0), in units, rounded to the nearest number
\* of the format, ties to even; an infinity when that exceeds MaxFinite.
Rnd(a, b) ==
  LET mag == Abs(a)
      s == Shift(mag \div b)
      d == b * 2 ^ s
      fl == mag \div d
      rem2 == 2 * (mag % d)
      m == IF rem2 > d \/ (rem2 = d /\ fl % 2 = 1) THEN fl + 1 ELSE fl
      val == m * 2 ^ s
  IN IF val > MaxFinite THEN Inf(a) ELSE Fin(Sgn(a) * val)

\* The number literal i (an integer): i rounded to the format.
Num(i) == Rnd(i * Unit, 1)
Zero == Fin(0)

\* typeof v === 'number'
IsNumberType(a) == a.k # "null"
\* isNaN(v), for a value of type number
IsNaN(a) == a.k = "nan"
\* isFinite(v), for a value of type number
IsFinite(a) == a.k = "fin"

\* a + b
fadd(a, b) ==
  IF a.k = "nan" \/ b.k = "nan" THEN NaN
  ELSE IF a.k = "inf" /\ b.k = "inf" THEN (IF a.v = b.v THEN a ELSE NaN)
  ELSE IF a.k = "inf" THEN a
  ELSE IF b.k = "inf" THEN b
  ELSE Rnd(a.v + b.v, 1)

\* -a
fneg(a) == IF a.k = "nan" THEN NaN ELSE [k |-> a.k, v |-> -a.v]

\* a - b
fsub(a, b) == fadd(a, fneg(b))

\* a * b
fmul(a, b) ==
  IF a.k = "nan" \/ b.k = "nan" THEN NaN
  ELSE IF a.k = "inf" \/ b.k = "inf"
       THEN (IF SignOf(a) = 0 \/ SignOf(b) = 0 THEN NaN
             ELSE Inf(SignOf(a) * SignOf(b)))
  ELSE Rnd(a.v * b.v, Unit)

\* a / b
fdiv(a, b) ==
  IF a.k = "nan" \/ b.k = "nan" THEN NaN
  ELSE IF a.k = "inf" THEN (IF b.k = "inf" THEN NaN
                            ELSE Inf(a.v * (IF b.v < 0 THEN -1 ELSE 1)))
  ELSE IF b.k = "inf" THEN Zero
  ELSE IF b.v = 0 THEN (IF a.v = 0 THEN NaN ELSE Inf(a.v))
  ELSE Rnd(Sgn(b.v) * a.v * Unit, Abs(b.v))

\* Largest r with r * r <= t.
Isqrt(t) == CHOOSE r \in 0..t : r * r <= t /\ (r + 1) * (r + 1) > t

\* Math.sqrt(a)
fsqrt(a) ==
  IF a.k = "nan" THEN NaN
  ELSE IF a.k = "inf" THEN (IF a.v > 0 THEN PosInf ELSE NaN)
  ELSE IF a.v < 0 THEN NaN
  ELSE LET t == a.v * Unit
           q == Isqrt(t)
           step == 2 ^ Shift(q)
           lo == (q \div step) * step
           mid2 == 2 * lo + step
           up == mid2 * mid2 < 4 * t
                 \/ (mid2 * mid2 = 4 * t /\ (lo \div step) % 2 = 1)
       IN IF up THEN Fin(lo + step) ELSE Fin(lo)

\* Math.abs(a)
fabs(a) == IF a.k = "nan" THEN NaN ELSE [k |-> a.k, v |-> Abs(a.v)]

\* a < b
flt(a, b) ==
  IF a.k = "nan" \/ b.k = "nan" THEN FALSE
  ELSE IF a.k = "inf" THEN a.v < 0 /\ b # NegInf
  ELSE IF b.k = "inf" THEN b.v > 0
  ELSE a.v < b.v

\* a <= b
fle(a, b) == a.k # "nan" /\ b.k # "nan" /\ ~flt(b, a)

\* a === b, for values of type number
feq(a, b) == a.k # "nan" /\ b.k # "nan" /\ a = b

\* Math.max(a, b)
fmax(a, b) ==
  IF a.k = "nan" \/ b.k = "nan" THEN NaN ELSE IF flt(a, b) THEN b ELSE a

\* Math.min(a, b)
fmin(a, b) ==
  IF a.k = "nan" \/ b.k = "nan" THEN NaN ELSE IF flt(b, a) THEN b ELSE a

\* ------------------------------------------------------------------------
\* Arrays: an argument is an array, or missing (null / undefined)
\* ------------------------------------------------------------------------
Arr(s) == [present |-> TRUE, items |-> s]
Missing == [present |-> FALSE, items |-> <<>>]

\* All sequences over S of length at most n.
SeqsUpTo(S, n) == UNION {[1..m -> S] : m \in 0..n}

\* isValidNumber(value): typeof value === 'number' && !isNaN(value) && isFinite(value)
isValidNumber(value) ==
  IsNumberType(value) /\ ~IsNaN(value) /\ IsFinite(value)

\* ------------------------------------------------------------------------
\* calculateCorrelation
\* ------------------------------------------------------------------------
\* The condition under which index i contributes a pair.
PairValid(xi, yi) ==
  /\ IsNumberType(xi)
  /\ IsNumberType(yi)
  /\ ~IsNaN(xi)
  /\ ~IsNaN(yi)
  /\ IsFinite(xi)
  /\ IsFinite(yi)

RECURSIVE FilterValid(_)
FilterValid(s) ==
  IF s = <<>> THEN <<>>
  ELSE (IF isValidNumber(Head(s)) THEN <<Head(s)>> ELSE <<>>) \o FilterValid(Tail(s))

\* A filter that cleans each array on its own and pairs what is left.
ValidPairsIndependent(xs, ys) ==
  LET fx == FilterValid(xs)
      fy == FilterValid(ys)
      m == IF Len(fx) < Len(fy) THEN Len(fx) ELSE Len(fy)
  IN [i \in 1..m |-> <<fx[i], fy[i]>>]

RECURSIVE ValidPairsFrom(_, _, _)
\* The loop over i: the pairs pushed from index i on.
ValidPairsFrom(xs, ys, i) ==
  IF i > Len(xs) THEN <<>>
  ELSE (IF PairValid(xs[i], ys[i]) THEN <<(<<xs[i], ys[i]>>)>> ELSE <<>>)
       \o ValidPairsFrom(xs, ys, i + 1)

\* validPairs, for two arrays of one length
ValidPairs(xs, ys) == ValidPairsFrom(xs, ys, 1)

RECURSIVE ReduceSum(_, _, _)
\* values.reduce((sum, val) => sum + val, acc), from index i on
ReduceSum(s, acc, i) ==
  IF i > Len(s) THEN acc ELSE ReduceSum(s, fadd(acc, s[i]), i + 1)

\* validX.reduce((sum, val) => sum + val, 0) / n
MeanOf(s) == fdiv(ReduceSum(s, Zero, 1), Num(Len(s)))

RECURSIVE SumLoop(_, _, _, _, _, _)
\* The loop accumulating sumXY, sumX2 and sumY2, from index i on.
SumLoop(vx, vy, meanX, meanY, i, acc) ==
  IF i > Len(vx) THEN acc
  ELSE LET dx == fsub(vx[i], meanX)
           dy == fsub(vy[i], meanY)
       IN SumLoop(vx, vy, meanX, meanY, i + 1,
                  [sumXY |-> fadd(acc.sumXY, fmul(dx, dy)),
                   sumX2 |-> fadd(acc.sumX2, fmul(dx, dx)),
                   sumY2 |-> fadd(acc.sumY2, fmul(dy, dy))])

\* The sums of the deviations' products over the valid pairs.
Sums(validPairs) ==
  LET validX == [i \in 1..Len(validPairs) |-> validPairs[i][1]]
      validY == [i \in 1..Len(validPairs) |-> validPairs[i][2]]
  IN SumLoop(validX, validY, MeanOf(validX), MeanOf(validY), 1,
             [sumXY |-> Zero, sumX2 |-> Zero, sumY2 |-> Zero])

\* Math.max(-1, Math.min(1, correlation))
Clamp(correlation) == fmax(Num(-1), fmin(Num(1), correlation))

\* The coefficient over at least two valid pairs.
Pearson(validPairs) ==
  LET s == Sums(validPairs)
  IN IF feq(s.sumX2, Zero) \/ feq(s.sumY2, Zero) THEN Zero
     ELSE Clamp(fdiv(s.sumXY, fsqrt(fmul(s.sumX2, s.sumY2))))

calculateCorrelation(x, y) ==
  IF ~x.present \/ ~y.present \/ Len(x.items) = 0 \/ Len(y.items) = 0 THEN Zero
  ELSE IF Len(x.items) # Len(y.items) THEN Zero
  ELSE IF Len(x.items) = 1 THEN Zero
  ELSE LET validPairs == ValidPairs(x.items, y.items)
       IN IF Len(validPairs) < 2 THEN Zero ELSE Pearson(validPairs)

\* ------------------------------------------------------------------------
\* calculateAverage, calculateMax, calculateSum
\* ------------------------------------------------------------------------
RECURSIVE MaxOf(_, _, _)
\* Math.max(...validValues): the largest of the arguments from index i on,
\* acc being the largest so far (-Infinity for none).
MaxOf(s, acc, i) ==
  IF i > Len(s) THEN acc ELSE MaxOf(s, fmax(acc, s[i]), i + 1)

\* A filter that keeps everything.
NoFilter(s) == s

\* values.filter(isValidNumber)
ValidValues(s) == FilterValid(s)

calculateAverage(values) ==
  IF ~values.present \/ Len(values.items) = 0 THEN Zero
  ELSE LET validValues == ValidValues(values.items)
       IN IF Len(validValues) = 0 THEN Zero
          ELSE fdiv(ReduceSum(validValues, Zero, 1), Num(Len(validValues)))

\* A maximum that starts from 0 instead of -Infinity.
calculateMaxFromZero(values) ==
  IF ~values.present \/ Len(values.items) = 0 THEN Zero
  ELSE MaxOf(ValidValues(values.items), Zero, 1)

calculateMax(values) ==
  IF ~values.present \/ Len(values.items) = 0 THEN Zero
  ELSE LET validValues == ValidValues(values.items)
       IN IF Len(validValues) = 0 THEN Zero
          ELSE MaxOf(validValues, NegInf, 1)

calculateSum(values) ==
  IF ~values.present \/ Len(values.items) = 0 THEN Zero
  ELSE LET validValues == ValidValues(values.items)
       IN IF Len(validValues) = 0 THEN Zero
          ELSE ReduceSum(validValues, Zero, 1)

\* ------------------------------------------------------------------------
\* Results: a returned value, or a raised exception
\* ------------------------------------------------------------------------
Ok(v) == [threw |-> FALSE, value |-> v]
ThrewSeq == [threw |-> TRUE, value |-> <<>>]
ThrewNum == [threw |-> TRUE, value |-> NaN]

\* ------------------------------------------------------------------------
\* Dates: the date field of a record is a string (its characters as codes),
\* or a value of another type
\* ------------------------------------------------------------------------
Str(s) == [t |-> "string", s |-> s]
\* A date that is a number n, not a string.
NumDate(n) == [t |-> "number", s |-> <<n>>]
NoDate == [t |-> "undefined", s |-> <<>>]

\* The truthiness of a date field: (record.date && ...)
Truthy(d) ==
  \/ d.t = "string" /\ d.s # <<>>
  \/ d.t = "number" /\ d.s # <<0>>

RECURSIVE LocaleCompare(_, _)
\* a.localeCompare(b) for strings of digits and hyphens: negative, zero or
\* positive as a sorts before, with or after b.
LocaleCompare(a, b) ==
  IF a = <<>> THEN (IF b = <<>> THEN 0 ELSE -1)
  ELSE IF b = <<>> THEN 1
  ELSE IF Head(a) # Head(b) THEN (IF Head(a) < Head(b) THEN -1 ELSE 1)
  ELSE LocaleCompare(Tail(a), Tail(b))

\* ------------------------------------------------------------------------
\* mergeDatasets
\* ------------------------------------------------------------------------
FlareRec(date, flare) == [defined |-> TRUE, date |-> date, flare |-> flare]
StockRec(date, volatility, volume) ==
  [defined |-> TRUE, date |-> date, volatility |-> volatility, volume |-> volume]
\* An array element that is null or undefined.
NoFlare == [defined |-> FALSE, date |-> NoDate, flare |-> Null]
NoStock == [defined |-> FALSE, date |-> NoDate, volatility |-> Null, volume |-> Null]

\* map.has(date)
MapHas(map, date) == \E i \in 1..Len(map) : map[i].date = date
\* map.get(date), for a key the map has
MapGet(map, date) == map[CHOOSE i \in 1..Len(map) : map[i].date = date]

\* A map entry set whether or not the key is there: the last record wins.
MapSetOverwrite(map, rec) ==
  IF MapHas(map, rec.date)
  THEN [i \in 1..Len(map) |-> IF map[i].date = rec.date THEN rec ELSE map[i]]
  ELSE Append(map, rec)

\* if (... && !map.has(rec.date)) map.set(rec.date, rec)
MapSetIfAbsent(map, rec) ==
  IF MapHas(map, rec.date) THEN map ELSE Append(map, rec)

\* A test that lets a record with an invalid flare value into the map.
FlareEntryOkNoNumberCheck(flare) ==
  flare.defined /\ Truthy(flare.date) /\ flare.date.t = "string"

\* flare && flare.date && typeof flare.date === 'string' && isValidNumber(flare.flare)
FlareEntryOk(flare) ==
  /\ flare.defined
  /\ Truthy(flare.date)
  /\ flare.date.t = "string"
  /\ isValidNumber(flare.flare)

\* stock && stock.date && typeof stock.date === 'string' &&
\* isValidNumber(stock.volatility) && isValidNumber(stock.volume)
StockEntryOk(stock) ==
  /\ stock.defined
  /\ Truthy(stock.date)
  /\ stock.date.t = "string"
  /\ isValidNumber(stock.volatility)
  /\ isValidNumber(stock.volume)

RECURSIVE FlareMapFrom(_, _, _)
\* for (const flare of flareData): the map after the records from index i on
FlareMapFrom(flareData, i, map) ==
  IF i > Len(flareData) THEN map
  ELSE FlareMapFrom(flareData, i + 1,
                    IF FlareEntryOk(flareData[i])
                    THEN MapSetIfAbsent(map, flareData[i]) ELSE map)

RECURSIVE StockMapFrom(_, _, _)
\* for (const stock of stockData): the map after the records from index i on
StockMapFrom(stockData, i, map) ==
  IF i > Len(stockData) THEN map
  ELSE StockMapFrom(stockData, i + 1,
                    IF StockEntryOk(stockData[i])
                    THEN MapSetIfAbsent(map, stockData[i]) ELSE map)

RECURSIVE CommonDatesFrom(_, _, _)
\* Array.from(flareMap.keys()).filter(date => stockMap.has(date))
CommonDatesFrom(flareMap, stockMap, i) ==
  IF i > Len(flareMap) THEN <<>>
  ELSE (IF MapHas(stockMap, flareMap[i].date) THEN <<flareMap[i].date>> ELSE <<>>)
       \o CommonDatesFrom(flareMap, stockMap, i + 1)

RECURSIVE InsertDate(_, _)
\* date put into an ascending sequence, after the dates that do not sort after it
InsertDate(sorted, date) ==
  IF sorted = <<>> THEN <<date>>
  ELSE IF LocaleCompare(date.s, Head(sorted).s) < 0 THEN <<date>> \o sorted
  ELSE <<Head(sorted)>> \o InsertDate(Tail(sorted), date)

RECURSIVE SortFrom(_, _, _)
SortFrom(dates, i, sorted) ==
  IF i > Len(dates) THEN sorted
  ELSE SortFrom(dates, i + 1, InsertDate(sorted, dates[i]))

\* The dates left in the order the flare map holds them.
Unsorted(dates) == dates

\* commonDates.sort((a, b) => a.localeCompare(b))
SortDates(dates) == SortFrom(dates, 1, <<>>)

RECURSIVE ComposeFrom(_, _, _, _)
\* for (const date of commonDates): the rows pushed from index i on
ComposeFrom(commonDates, flareMap, stockMap, i) ==
  IF i > Len(commonDates) THEN <<>>
  ELSE LET date == commonDates[i]
           flare == MapGet(flareMap, date)
           stock == MapGet(stockMap, date)
       IN (IF /\ isValidNumber(flare.flare)
              /\ isValidNumber(stock.volatility)
              /\ isValidNumber(stock.volume)
           THEN <<[date |-> date, flare |-> flare.flare,
                   volatility |-> stock.volatility, trades |-> stock.volume]>>
           ELSE <<>>)
          \o ComposeFrom(commonDates, flareMap, stockMap, i + 1)

\* The body of mergeDatasets past its guard, for two arrays.
MergeArrays(flareData, stockData) ==
  LET flareMap == FlareMapFrom(flareData, 1, <<>>)
      stockMap == StockMapFrom(stockData, 1, <<>>)
      commonDates == SortDates(CommonDatesFrom(flareMap, stockMap, 1))
  IN ComposeFrom(commonDates, flareMap, stockMap, 1)

\* A merge without the guard: iterating a missing array raises a TypeError.
mergeDatasetsNoGuard(flareData, stockData) ==
  IF ~flareData.present \/ ~stockData.present THEN ThrewSeq
  ELSE Ok(MergeArrays(flareData.items, stockData.items))

mergeDatasets(flareData, stockData) ==
  IF \/ ~flareData.present
     \/ ~stockData.present
     \/ Len(flareData.items) = 0
     \/ Len(stockData.items) = 0
  THEN Ok(<<>>)
  ELSE Ok(MergeArrays(flareData.items, stockData.items))

\* ------------------------------------------------------------------------
\* categorizeIntensity, generateDistributionData
\* ------------------------------------------------------------------------
\* A categorization whose bands include their upper bound.
categorizeIntensityInclusive(intensity) ==
  IF ~isValidNumber(intensity) \/ flt(intensity, Zero) THEN "Low"
  ELSE IF fle(intensity, Num(2)) THEN "Low"
  ELSE IF fle(intensity, Num(4)) THEN "Medium"
  ELSE IF fle(intensity, Num(6)) THEN "High"
  ELSE "Extreme"

categorizeIntensity(intensity) ==
  IF ~isValidNumber(intensity) \/ flt(intensity, Zero) THEN "Low"
  ELSE IF flt(intensity, Num(2)) THEN "Low"
  ELSE IF flt(intensity, Num(4)) THEN "Medium"
  ELSE IF flt(intensity, Num(6)) THEN "High"
  ELSE "Extreme"

categories == <<"Low", "Medium", "High", "Extreme">>

RECURSIVE DropEmptyBuckets(_)
DropEmptyBuckets(buckets) ==
  IF buckets = <<>> THEN <<>>
  ELSE (IF Head(buckets).count = 0 THEN <<>> ELSE <<Head(buckets)>>)
       \o DropEmptyBuckets(Tail(buckets))

\* A distribution that holds only the categories met.
generateDistributionDataSparse(flareValues) ==
  DropEmptyBuckets(
    [c \in 1..Len(categories) |->
       [range |-> categories[c],
        count |-> Cardinality({i \in 1..Len(flareValues) :
                                 categorizeIntensity(flareValues[i]) = categories[c]})]])

\* counts[category]++ for each flare value; then one entry per category
generateDistributionData(flareValues) ==
  [c \in 1..Len(categories) |->
     [range |-> categories[c],
      count |-> Cardinality({i \in 1..Len(flareValues) :
                               categorizeIntensity(flareValues[i]) = categories[c]})]]

\* ------------------------------------------------------------------------
\* NASAClient.transformFlareData
\* ------------------------------------------------------------------------
\* A raw event's classType is a string (its characters) or missing; its
\* peakTime is a string that Date parses to a UTC day, or one it cannot parse,
\* or missing.
ClassStr(s) == [t |-> "string", s |-> s]
NoClass == [t |-> "undefined", s |-> <<>>]
PeakTime(day) == [t |-> "string", valid |-> TRUE, day |-> day]
BadPeakTime == [t |-> "string", valid |-> FALSE, day |-> 0]
NoPeakTime == [t |-> "undefined", valid |-> FALSE, day |-> 0]
RawEvent(classType, peakTime) ==
  [classType |-> classType, peakTime |-> peakTime]

Digits == <<"0", "1", "2", "3", "4", "5", "6", "7", "8", "9">>
IsDigit(c) == \E d \in 1..10 : Digits[d] = c
DigitVal(c) == (CHOOSE d \in 1..10 : Digits[d] = c) - 1
ClassLetters == {"C", "M", "X", "c", "m", "x"}
\* classLetter.toUpperCase()
ToUpperCase(c) == IF c = "c" THEN "C" ELSE IF c = "m" THEN "M" ELSE IF c = "x" THEN "X" ELSE c

\* classType.match(/^([CMX])(\d+\.?\d*)$/i)
ClassMatches(s) ==
  /\ Len(s) >= 2
  /\ s[1] \in ClassLetters
  /\ IsDigit(s[2])
  /\ \A i \in 2..Len(s) : IsDigit(s[i]) \/ s[i] = "."
  /\ Cardinality({i \in 2..Len(s) : s[i] = "."}) <= 1

RECURSIVE DecimalOf(_, _, _, _, _)
\* parseFloat of digits with at most one point: the digits read from index i
\* on, num / den being the value read so far.
DecimalOf(s, i, num, den, afterPoint) ==
  IF i > Len(s) THEN Rnd(num * Unit, den)
  ELSE IF s[i] = "." THEN DecimalOf(s, i + 1, num, den, TRUE)
  ELSE DecimalOf(s, i + 1, num * 10 + DigitVal(s[i]),
                 IF afterPoint THEN den * 10 ELSE den, afterPoint)

\* classMultiplier: C: 0.1, M: 1, X: 10
classMultiplier(letter) ==
  IF letter = "C" THEN Rnd(Unit, 10) ELSE IF letter = "M" THEN Num(1) ELSE Num(10)

\* extractFlareIntensity(classType): the intensity, or an Error thrown
extractFlareIntensity(classType) ==
  IF classType.t # "string" \/ classType.s = <<>> THEN ThrewNum
  ELSE IF ~ClassMatches(classType.s) THEN ThrewNum
  ELSE LET numericMagnitude == DecimalOf(classType.s, 2, 0, 1, FALSE)
       IN IF IsNaN(numericMagnitude) THEN ThrewNum
          ELSE Ok(fmul(numericMagnitude,
                       classMultiplier(ToUpperCase(classType.s[1]))))

\* The UTC day d formatted year-month-day, zero padded: a string of fixed
\* width whose order is the days' order.
DateOfDay(d) == Str(<<d \div 10, d % 10>>)

\* normalizeDate(dateString): the date, or an Error thrown
normalizeDate(dateString) ==
  IF dateString.t # "string" THEN [threw |-> TRUE, value |-> NoDate]
  ELSE IF ~dateString.valid THEN [threw |-> TRUE, value |-> NoDate]
  ELSE [threw |-> FALSE, value |-> DateOfDay(dateString.day)]

RECURSIVE TransformFromAbort(_, _)
\* A loop with the try around it, not in it: the first malformed event ends
\* the batch.
TransformFromAbort(events, i) ==
  IF i > Len(events) THEN <<>>
  ELSE LET event == events[i]
           flareIntensity == extractFlareIntensity(event.classType)
           normalizedDate == normalizeDate(event.peakTime)
       IN IF flareIntensity.threw \/ normalizedDate.threw THEN <<>>
          ELSE <<[defined |-> TRUE,
                  date |-> normalizedDate.value,
                  flare |-> flareIntensity.value,
                  class |-> event.classType,
                  peakTime |-> event.peakTime]>>
               \o TransformFromAbort(events, i + 1)

RECURSIVE TransformFrom(_, _)
\* for (const event of events): the results pushed from index i on
TransformFrom(events, i) ==
  IF i > Len(events) THEN <<>>
  ELSE LET event == events[i]
           flareIntensity == extractFlareIntensity(event.classType)
           normalizedDate == normalizeDate(event.peakTime)
       IN (IF flareIntensity.threw \/ normalizedDate.threw THEN <<>>
           ELSE <<[defined |-> TRUE,
                   date |-> normalizedDate.value,
                   flare |-> flareIntensity.value,
                   class |-> event.classType,
                   peakTime |-> event.peakTime]>>)
          \o TransformFrom(events, i + 1)

RECURSIVE KeepFirstPerDate(_, _)
KeepFirstPerDate(records, kept) ==
  IF records = <<>> THEN kept
  ELSE KeepFirstPerDate(Tail(records),
         IF \E k \in 1..Len(kept) : kept[k].date = Head(records).date
         THEN kept ELSE Append(kept, Head(records)))

\* A transform that keeps one record, the first, per day.
transformFlareDataOnePerDay(events) ==
  KeepFirstPerDate(TransformFrom(events, 1), <<>>)

transformFlareData(events) == TransformFrom(events, 1)

\* ------------------------------------------------------------------------
\* StockClient.calculateVolatility
\* ------------------------------------------------------------------------
\* Seconds in a day: a quote's timestamp is in seconds, its date the UTC day.
SecondsPerDay == 86400

Quote(timestamp, high, low, close, volume) ==
  [timestamp |-> timestamp, high |-> high, low |-> low, close |-> close,
   volume |-> volume]

\* The volatility of quote i.
VolatilityAt(quotes, i) ==
  LET quote == quotes[i]
      intradayVolatility ==
        IF flt(Zero, quote.close)
        THEN fmul(fabs(fdiv(fsub(quote.high, quote.low), quote.close)), Num(100))
        ELSE Zero
      prevClose == quotes[i - 1].close
      priceChangeVolatility ==
        IF i > 1 /\ flt(Zero, prevClose)
        THEN fmul(fabs(fdiv(fsub(quote.close, prevClose), prevClose)), Num(100))
        ELSE Zero
      volatility == fmax(intradayVolatility, priceChangeVolatility)
  IN fmax(Zero, volatility)

calculateVolatility(quotes) ==
  [i \in 1..Len(quotes) |->
     [defined |-> TRUE,
      date |-> DateOfDay(quotes[i].timestamp \div SecondsPerDay),
      close |-> quotes[i].close,
      volume |-> quotes[i].volume,
      volatility |-> VolatilityAt(quotes, i)]]

\* ------------------------------------------------------------------------
\* getDashboardData
\* ------------------------------------------------------------------------
getEmptyDashboardData ==
  [composedData |-> <<>>, correlationData |-> <<>>, distributionData |-> <<>>,
   heatmapData |-> <<>>,
   stats |-> [avgFlare |-> Zero, avgVolatility |-> Zero, totalTrades |-> Zero,
              correlation |-> Zero, maxFlare |-> Zero, maxVolatility |-> Zero]]

\* A dashboard that takes the whole flare series, merged or not, for its
\* statistics.
AssembleUnmerged(nasaRawEvents, stockQuotes) ==
  LET flareData == transformFlareData(nasaRawEvents)
      flareValues == [i \in 1..Len(flareData) |-> flareData[i].flare]
  IN [composedData |-> <<>>, correlationData |-> <<>>,
      distributionData |-> generateDistributionData(flareValues),
      heatmapData |-> <<>>,
      stats |-> [avgFlare |-> calculateAverage(Arr(flareValues)),
                 avgVolatility |-> Zero, totalTrades |-> Zero,
                 correlation |-> Zero,
                 maxFlare |-> calculateMax(Arr(flareValues)),
                 maxVolatility |-> Zero]]

\* getDashboardDataInternal: dashboardData, from the merged rows and their
\* three columns
DashboardOf(composedData, flareValues, volatilityValues, tradeValues) ==
  [composedData |-> composedData,
   correlationData |->
     [i \in 1..Len(composedData) |->
        [flare |-> composedData[i].flare,
         volatility |-> composedData[i].volatility]],
   distributionData |-> generateDistributionData(flareValues),
   heatmapData |->
     [i \in 1..Len(composedData) |->
        [date |-> composedData[i].date, flare |-> composedData[i].flare,
         volatility |-> composedData[i].volatility,
         trades |-> composedData[i].trades,
         intensity |-> fmul(composedData[i].flare, composedData[i].volatility)]],
   stats |-> [avgFlare |-> calculateAverage(Arr(flareValues)),
              avgVolatility |-> calculateAverage(Arr(volatilityValues)),
              totalTrades |-> calculateSum(Arr(tradeValues)),
              correlation |-> calculateCorrelation(Arr(flareValues),
                                                   Arr(volatilityValues)),
              maxFlare |-> calculateMax(Arr(flareValues)),
              maxVolatility |-> calculateMax(Arr(volatilityValues))]]

\* getDashboardDataInternal from the merge on
AssembleMerged(composedData) ==
  DashboardOf(composedData,
              [i \in 1..Len(composedData) |-> composedData[i].flare],
              [i \in 1..Len(composedData) |-> composedData[i].volatility],
              [i \in 1..Len(composedData) |-> composedData[i].trades])

\* The rows of a merge, none when it threw.
RowsOf(merged) == IF merged.threw THEN <<>> ELSE merged.value

\* getDashboardDataInternal from the two awaited arrays on: transform, merge,
\* statistics.
Assemble(nasaRawEvents, stockQuotes) ==
  AssembleMerged(RowsOf(mergeDatasets(Arr(transformFlareData(nasaRawEvents)),
                                      Arr(calculateVolatility(stockQuotes)))))

\* ------------------------------------------------------------------------
\* getAnalysisData: analyzeFlares, analyzeVolatility, analyzeCorrelation
\* ------------------------------------------------------------------------
\* null, for mostActiveDay and mostVolatileDay
NoDay == [defined |-> FALSE, date |-> NoDate, value |-> Null]
Day(date, value) == [defined |-> TRUE, date |-> date, value |-> value]

getEmptyAnalysisData ==
  [summary |-> [totalFlareEvents |-> Zero, totalTradingDays |-> Zero,
                avgFlareIntensity |-> Zero, avgVolatility |-> Zero,
                maxFlareIntensity |-> Zero, maxVolatility |-> Zero,
                totalVolume |-> Zero, correlationCoefficient |-> Zero],
   flareAnalysis |-> [byClass |-> <<>>,
                      byIntensityRange |-> [c \in {"Low", "Medium", "High", "Extreme"} |-> 0],
                      mostActiveDay |-> NoDay],
   volatilityAnalysis |-> [highVolatilityDays |-> 0, lowVolatilityDays |-> 0,
                           avgDailyChange |-> Zero, mostVolatileDay |-> NoDay],
   correlationAnalysis |-> [strength |-> "none", direction |-> "none",
                            coefficient |-> Zero],
   timeSeriesData |-> <<>>]

\* flare.class.charAt(0): the first character, or the empty string
CharAt0(class) == IF Len(class.s) = 0 THEN "" ELSE class.s[1]

\* flare.class.charAt(0).toUpperCase()
ClassKey(flare) == ToUpperCase(CharAt0(flare.class))

\* A count that notes each letter met but does not add up.
CountByClassOnce(flareData) ==
  [l \in {ClassKey(flareData[i]) : i \in 1..Len(flareData)} |-> 1]

\* byClass[classLetter] = (byClass[classLetter] || 0) + 1, for each record:
\* the keys are the letters met, each with the number of records under it.
CountByClass(flareData) ==
  [l \in {ClassKey(flareData[i]) : i \in 1..Len(flareData)} |->
     Cardinality({i \in 1..Len(flareData) : ClassKey(flareData[i]) = l})]

\* byIntensityRange[categorizeIntensity(item.flare)]++, from four zeros
CountByIntensityRange(composedData) ==
  [c \in {"Low", "Medium", "High", "Extreme"} |->
     Cardinality({i \in 1..Len(composedData) :
                    categorizeIntensity(composedData[i].flare) = c})]

RECURSIVE MostFrom(_, _, _, _)
\* if (!most || item[field] > most.value) most = {date, value}, from index i on
MostFrom(composedData, field, i, most) ==
  IF i > Len(composedData) THEN most
  ELSE MostFrom(composedData, field, i + 1,
                IF ~most.defined \/ flt(most.value, composedData[i][field])
                THEN Day(composedData[i].date, composedData[i][field])
                ELSE most)

analyzeFlares(flareData, composedData) ==
  [byClass |-> CountByClass(flareData),
   byIntensityRange |-> CountByIntensityRange(composedData),
   mostActiveDay |-> MostFrom(composedData, "flare", 1, NoDay)]

RECURSIVE InsertAscending(_, _)
\* v put into an ascending sequence, after the values not greater than it
InsertAscending(sorted, v) ==
  IF sorted = <<>> THEN <<v>>
  ELSE IF flt(v, Head(sorted)) THEN <<v>> \o sorted
  ELSE <<Head(sorted)>> \o InsertAscending(Tail(sorted), v)

RECURSIVE SortAscendingFrom(_, _, _)
SortAscendingFrom(vals, i, sorted) ==
  IF i > Len(vals) THEN sorted
  ELSE SortAscendingFrom(vals, i + 1, InsertAscending(sorted, vals[i]))

\* values.sort((a, b) => a - b), for finite numbers
SortAscending(vals) == SortAscendingFrom(vals, 1, <<>>)

\* The middle taken one place lower: index floor((n - 1) / 2).
MedianOfLower(volatilityValues) ==
  LET n == Len(volatilityValues)
  IN IF n = 0 THEN Zero
     ELSE LET picked == volatilityValues[((n - 1) \div 2) + 1]
          IN IF IsNaN(picked) \/ picked = Zero THEN Zero ELSE picked

\* volatilityValues[Math.floor(volatilityValues.length / 2)] || 0, the array
\* indexed from 0
MedianOf(volatilityValues) ==
  LET n == Len(volatilityValues)
  IN IF n = 0 THEN Zero
     ELSE LET picked == volatilityValues[(n \div 2) + 1]
          IN IF IsNaN(picked) \/ picked = Zero THEN Zero ELSE picked

RECURSIVE TotalChangeFrom(_, _, _)
\* totalChange += Math.abs(stockData[i].close - stockData[i - 1].close)
TotalChangeFrom(stockData, i, totalChange) ==
  IF i > Len(stockData) THEN totalChange
  ELSE TotalChangeFrom(stockData, i + 1,
         fadd(totalChange, fabs(fsub(stockData[i].close, stockData[i - 1].close))))

analyzeVolatility(stockData, composedData) ==
  LET volatilityValues ==
        SortAscending([i \in 1..Len(composedData) |-> composedData[i].volatility])
      median == MedianOf(volatilityValues)
      high == {i \in 1..Len(composedData) : flt(median, composedData[i].volatility)}
  IN [highVolatilityDays |-> Cardinality(high),
      lowVolatilityDays |-> Len(composedData) - Cardinality(high),
      avgDailyChange |->
        IF Len(stockData) > 1
        THEN fdiv(TotalChangeFrom(stockData, 2, Zero), Num(Len(stockData) - 1))
        ELSE Zero,
      mostVolatileDay |-> MostFrom(composedData, "volatility", 1, NoDay)]

\* A decimal literal num/10 of the source, rounded as any number is.
Tenths(num) == Rnd(num * Unit, 10)

analyzeCorrelation(coefficient) ==
  LET absCoeff == fabs(coefficient)
  IN [strength |->
        IF fle(Tenths(7), absCoeff) THEN "strong"
        ELSE IF fle(Tenths(4), absCoeff) THEN "moderate"
        ELSE IF fle(Tenths(2), absCoeff) THEN "weak"
        ELSE "none",
      direction |->
        IF flt(Tenths(1), coefficient) THEN "positive"
        ELSE IF flt(coefficient, fneg(Tenths(1))) THEN "negative"
        ELSE "none",
      coefficient |-> coefficient]

\* getAnalysisDataInternal: analysisData, from the values the function has
\* bound by then.
AnalysisOf(flareData, stockData, composedData, flareValues, volatilityValues, volumeValues, correlationCoefficient) ==
  [summary |->
     [totalFlareEvents |-> Num(Len(flareData)),
      totalTradingDays |-> Num(Len(stockData)),
      avgFlareIntensity |-> calculateAverage(Arr(flareValues)),
      avgVolatility |-> calculateAverage(Arr(volatilityValues)),
      maxFlareIntensity |-> calculateMax(Arr(flareValues)),
      maxVolatility |-> calculateMax(Arr(volatilityValues)),
      totalVolume |-> calculateSum(Arr(volumeValues)),
      correlationCoefficient |-> correlationCoefficient],
   flareAnalysis |-> analyzeFlares(flareData, composedData),
   volatilityAnalysis |-> analyzeVolatility(stockData, composedData),
   correlationAnalysis |-> analyzeCorrelation(correlationCoefficient),
   timeSeriesData |->
     [i \in 1..Len(composedData) |->
        [date |-> composedData[i].date,
         flare |-> composedData[i].flare,
         volatility |-> composedData[i].volatility,
         volume |-> composedData[i].trades]]]

\* getAnalysisDataInternal: the three columns of composedData and their
\* correlation
AnalyseColumns(flareData, stockData, composedData, flareValues, volatilityValues, volumeValues) ==
  AnalysisOf(flareData, stockData, composedData, flareValues,
             volatilityValues, volumeValues,
             calculateCorrelation(Arr(flareValues), Arr(volatilityValues)))

\* getAnalysisDataInternal from the merge on
AnalyseMerged(flareData, stockData, composedData) ==
  AnalyseColumns(flareData, stockData, composedData,
                 [i \in 1..Len(composedData) |-> composedData[i].flare],
                 [i \in 1..Len(composedData) |-> composedData[i].volatility],
                 [i \in 1..Len(composedData) |-> composedData[i].trades])

\* getAnalysisDataInternal from the transformed arrays on: merge, summary and
\* the three analyses.
Analyse(flareData, stockData) ==
  AnalyseMerged(flareData, stockData,
                mergeDatasets(Arr(flareData), Arr(stockData)).value)

\* ------------------------------------------------------------------------
\* AnalysisDashboard: lag and rolling-window correlation
\* ------------------------------------------------------------------------
\* The inline Pearson formula of both helpers: numerator over denominator,
\* from the five running sums; absolute says whether Math.abs is applied.
PearsonOfSums(flareColumn, volatilities, absolute) ==
  LET n == Num(Len(flareColumn))
      sumFlares == ReduceSum(flareColumn, Zero, 1)
      sumVolatility == ReduceSum(volatilities, Zero, 1)
      sumFlaresSq ==
        ReduceSum([i \in 1..Len(flareColumn) |->
                     fmul(flareColumn[i], flareColumn[i])], Zero, 1)
      sumVolatilitySq ==
        ReduceSum([i \in 1..Len(volatilities) |->
                     fmul(volatilities[i], volatilities[i])], Zero, 1)
      sumProduct ==
        ReduceSum([i \in 1..Len(flareColumn) |->
                     fmul(flareColumn[i], volatilities[i])], Zero, 1)
      numerator == fsub(fmul(n, sumProduct), fmul(sumFlares, sumVolatility))
      denominator ==
        fsqrt(fmul(fsub(fmul(n, sumFlaresSq), fmul(sumFlares, sumFlares)),
                   fsub(fmul(n, sumVolatilitySq),
                        fmul(sumVolatility, sumVolatility))))
  IN IF denominator.k = "fin" /\ denominator.v = 0 THEN Zero
     ELSE IF absolute THEN fabs(fdiv(numerator, denominator))
     ELSE fdiv(numerator, denominator)

\* calculateLagCorrelation(lagDays) over data.timeSeriesData
calculateLagCorrelation(data, lagDays) ==
  IF ~data.present \/ Len(data.items) < lagDays + 2 THEN Zero
  ELSE LET m == Len(data.items) - lagDays
           flareColumn == [i \in 1..m |-> data.items[i].flare]
           volatilities == [i \in 1..m |-> data.items[i + lagDays].volatility]
       IN IF m < 2 THEN Zero
          ELSE PearsonOfSums(flareColumn, volatilities, FALSE)

\* calculateRollingCorrelation(windowSize) over data.timeSeriesData; the
\* period label is kept as its three parts: position, start and end date.
calculateRollingCorrelation(data, windowSize) ==
  IF ~data.present \/ Len(data.items) < windowSize THEN <<>>
  ELSE [i \in 1..(Len(data.items) - windowSize + 1) |->
          LET window == SubSeq(data.items, i, i + windowSize - 1)
          IN [period |-> [index |-> i,
                          startDate |-> window[1].date,
                          endDate |-> window[Len(window)].date],
              correlation |->
                PearsonOfSums([j \in 1..Len(window) |-> window[j].flare],
                              [j \in 1..Len(window) |-> window[j].volatility],
                              TRUE)]]

\* ------------------------------------------------------------------------
\* forecast: analyzeTrend
\* ------------------------------------------------------------------------
\* slice(-10): the window of the most recent data points
TrendWindow == 10
\* array.slice(-count)
SliceLast(array, count) ==
  IF Len(array) <= count THEN array
  ELSE SubSeq(array, Len(array) - count + 1, Len(array))
\* array.slice(begin, end) for 0 <= begin, 0 <= end
Slice(array, begin, end) ==
  SubSeq(array, begin + 1, IF end < Len(array) THEN end ELSE Len(array))
\* The literals 1.1 and 0.9
OnePointOne == Rnd(11 * Unit, 10)
ZeroPointNine == Rnd(9 * Unit, 10)
\* second > first * 1.1 ? 1 : second < first * 0.9 ? -1 : 0
TrendOf(firstHalf, secondHalf) ==
  IF flt(fmul(firstHalf, OnePointOne), secondHalf) THEN 1
  ELSE IF flt(secondHalf, fmul(firstHalf, ZeroPointNine)) THEN -1 ELSE 0

\* analyzeTrend(flares, volatility)
analyzeTrend(flareValues, volatilityValues) ==
  IF Len(flareValues) < 2 \/ Len(volatilityValues) < 2 THEN "stable"
  ELSE LET recentFlares == SliceLast(flareValues, TrendWindow)
           recentVolatility == SliceLast(volatilityValues, TrendWindow)
           midpoint == Len(recentFlares) \div 2
           firstHalfFlare ==
             calculateAverage(Arr(Slice(recentFlares, 0, midpoint)))
           secondHalfFlare ==
             calculateAverage(Arr(Slice(recentFlares, midpoint,
                                        Len(recentFlares))))
           firstHalfVolatility ==
             calculateAverage(Arr(Slice(recentVolatility, 0, midpoint)))
           secondHalfVolatility ==
             calculateAverage(Arr(Slice(recentVolatility, midpoint,
                                        Len(recentVolatility))))
           flareTrend == TrendOf(firstHalfFlare, secondHalfFlare)
           volatilityTrend == TrendOf(firstHalfVolatility, secondHalfVolatility)
           combinedTrend == flareTrend + volatilityTrend
       IN IF combinedTrend > 0 THEN "rising"
          ELSE IF combinedTrend < 0 THEN "declining" ELSE "stable"

\* ------------------------------------------------------------------------
\* forecast: getForecastData
\* ------------------------------------------------------------------------
\* The projections step by hundredths (0.05, 0.15, 0.95), which is below the
\* resolution of the scaled-down binary format, so they are carried in fixed
\* point: an integer counts units of 1 / DecScale, and every product is
\* rounded to the nearest unit.
DecScale == 100 * Unit
\* The literal of so many hundredths.
Dec(hundredths) == hundredths * Unit
\* The integer n.
DecInt(n) == n * DecScale
\* A finite number of the binary format, which converts exactly.
DecOf(a) == a.v * 100
\* a / b to the nearest integer (b > 0).
RoundDiv(a, b) == (2 * a + b) \div (2 * b)
\* a * b, the whole part of a multiplied apart so that no product is large.
DecMul(a, b) ==
  (a \div DecScale) * b + RoundDiv((a % DecScale) * b, DecScale)
DecDiv(a, b) == RoundDiv(a * DecScale, b)
MathMax(a, b) == IF a < b THEN b ELSE a
MathMin(a, b) == IF b < a THEN b ELSE a

RECURSIVE ExpSeries(_, _)
\* 100000 * (1 + x/k * (1 + x/(k+1) * (...))) for x = h / DecScale: the
\* series of e^x from its term k on, six terms deep.
ExpSeries(h, k) ==
  IF k > 6 THEN 100000
  ELSE 100000 + RoundDiv(h * ExpSeries(h, k + 1), DecScale * k)
\* Math.exp(h)
MathExp(h) == RoundDiv(ExpSeries(h, 1) * DecScale, 100000)

RECURSIVE SumOfDec(_, _)
SumOfDec(decValues, i) ==
  IF i > Len(decValues) THEN 0 ELSE decValues[i] + SumOfDec(decValues, i + 1)
\* calculateAverage on fixed-point values, all of them finite
AverageOfDec(decValues, i) ==
  IF Len(decValues) = 0 THEN 0
  ELSE RoundDiv(SumOfDec(decValues, i), Len(decValues))

\* options?.days || 7
DefaultForecastDays == 7
NoOptions == [given |-> FALSE, days |-> 0]
ForecastOptions(days) == [given |-> TRUE, days |-> days]
DaysOrDefault(options) ==
  IF options.given /\ options.days # 0 THEN options.days
  ELSE DefaultForecastDays

\* The last day a Date can hold: past it (or for NaN) the Date is invalid.
MaxDateDay == 99
\* new Date(quote.timestamp * 1000).toISOString() throws RangeError
ToISOStringThrows(timestamp) == timestamp \div SecondsPerDay > MaxDateDay
\* calculateVolatility has no try: the first invalid timestamp ends it.
calculateVolatilityThrows(quotes) ==
  \E i \in 1..Len(quotes) : ToISOStringThrows(quotes[i].timestamp)

\* calculateVolatility, with what it throws
calculateVolatilityResult(quotes) ==
  IF calculateVolatilityThrows(quotes) THEN ThrewSeq
  ELSE Ok(calculateVolatility(quotes))

\* trend === 'rising' ? 0.03 : trend === 'declining' ? -0.08 : -0.05
DecayRateOf(trend) ==
  IF trend = "rising" THEN Dec(3)
  ELSE IF trend = "declining" THEN -Dec(8) ELSE -Dec(5)

\* 0.15 + (0.05 * i)
ConfidenceWidth(i) == Dec(15) + DecMul(Dec(5), DecInt(i))

\* The body of the prediction loop at day offset i, Math.random() given.
ForecastPrediction(lastFlare, lastVolatility, decayRate, i, random) ==
  LET decayFactor == MathExp(DecMul(decayRate, DecInt(i)))
      randomVariation == Dec(95) + DecMul(random, Dec(10))
      predictedFlare ==
        MathMax(Dec(50), DecMul(DecMul(lastFlare, decayFactor), randomVariation))
      predictedVolatility ==
        MathMax(Dec(100),
                DecMul(DecMul(lastVolatility, decayFactor), randomVariation))
      confidenceWidth == ConfidenceWidth(i)
      lowerBound ==
        MathMax(0, DecMul(predictedVolatility, DecInt(1) - confidenceWidth))
      upperBound == DecMul(predictedVolatility, DecInt(1) + confidenceWidth)
  IN [date |-> i,
      predictedFlare |-> predictedFlare,
      predictedVolatility |-> predictedVolatility,
      confidenceInterval |-> <<lowerBound, upperBound>>]

\* A confidence that is not floored.
ConfidenceUnfloored(forecastDays) ==
  DecInt(1) - DecMul(DecInt(forecastDays), Dec(5))

\* Math.max(0.5, 1 - (forecastDays * 0.05))
ConfidenceOf(forecastDays) ==
  MathMax(Dec(50), DecInt(1) - DecMul(DecInt(forecastDays), Dec(5)))

getEmptyForecastData(days) ==
  [forecastDays |-> days, avgPredictedVolatility |-> 0,
   avgPredictedFlare |-> 0, confidence |-> 0, trend |-> "stable",
   predictions |-> <<>>]

\* The ForecastData built from the predictions.
ForecastOf(forecastDays, trend, predictions) ==
  [forecastDays |-> forecastDays,
   avgPredictedVolatility |->
     AverageOfDec([i \in 1..Len(predictions) |->
                     predictions[i].predictedVolatility], 1),
   avgPredictedFlare |->
     AverageOfDec([i \in 1..Len(predictions) |->
                     predictions[i].predictedFlare], 1),
   confidence |-> ConfidenceOf(forecastDays),
   trend |-> trend,
   predictions |-> predictions]

\* The last value of a historical series, or its average when it is empty.
LastOrAverage(historical) ==
  IF Len(historical) > 0 THEN DecOf(historical[Len(historical)])
  ELSE DecOf(calculateAverage(Arr(historical)))

\* The loop over the day offsets 1..forecastDays and what follows it.
ForecastFromLast(forecastDays, trend, lastFlare, lastVolatility, random) ==
  ForecastOf(forecastDays, trend,
             [i \in 1..forecastDays |->
                ForecastPrediction(lastFlare, lastVolatility, DecayRateOf(trend),
                                   i, random[i])])

\* flareData.map(d => d.flare), stockData.map(d => d.volatility)
FlareColumnOf(records) == [i \in 1..Len(records) |-> records[i].flare]
VolatilityColumnOf(records) == [i \in 1..Len(records) |-> records[i].volatility]

ForecastFromHistory(forecastDays, historicalFlares, historicalVolatility, random) ==
  ForecastFromLast(forecastDays,
                   analyzeTrend(historicalFlares, historicalVolatility),
                   LastOrAverage(historicalFlares),
                   LastOrAverage(historicalVolatility), random)

\* getForecastDataInternal once Promise.all has both arrays; random[i] is
\* what Math.random() gives in round i of the loop.
getForecastDataInternal(options, nasaEvents, quotes, random) ==
  IF calculateVolatilityThrows(quotes)
  THEN getEmptyForecastData(DaysOrDefault(options))
  ELSE ForecastFromHistory(DaysOrDefault(options),
         FlareColumnOf(transformFlareData(nasaEvents)),
         VolatilityColumnOf(calculateVolatility(quotes)), random)

\* ------------------------------------------------------------------------
\* forecast: getForecastData of lib/actions/forecast.ts
\* ------------------------------------------------------------------------
\* trend === 'rising' ? 1.05 : trend === 'declining' ? 0.95 : 1.0
TrendFactorOf(trend) ==
  IF trend = "rising" THEN Dec(105)
  ELSE IF trend = "declining" THEN Dec(95) ELSE Dec(100)

RECURSIVE MathPow(_, _)
\* Math.pow(base, i) for an integer i >= 0
MathPow(base, i) ==
  IF i = 0 THEN DecInt(1) ELSE DecMul(base, MathPow(base, i - 1))

\* The body of the prediction loop at day offset i.
TrendFactorPrediction(avgHistoricalFlare, avgHistoricalVolatility, trendFactor, i) ==
  LET dayFactor == MathPow(trendFactor, i)
      predictedFlare == DecMul(avgHistoricalFlare, dayFactor)
      predictedVolatility == DecMul(avgHistoricalVolatility, dayFactor)
      confidenceWidth == DecMul(Dec(20), DecInt(i))
      lowerBound ==
        MathMax(0, DecMul(predictedVolatility, DecInt(1) - confidenceWidth))
      upperBound == DecMul(predictedVolatility, DecInt(1) + confidenceWidth)
  IN [date |-> i,
      predictedFlare |-> predictedFlare,
      predictedVolatility |-> predictedVolatility,
      confidenceInterval |-> <<lowerBound, upperBound>>]

\* The loop over the day offsets 1..forecastDays and what follows it.
TrendFactorFromAverages(forecastDays, trend, avgHistoricalFlare, avgHistoricalVolatility) ==
  ForecastOf(forecastDays, trend,
             [i \in 1..forecastDays |->
                TrendFactorPrediction(avgHistoricalFlare, avgHistoricalVolatility,
                                      TrendFactorOf(trend), i)])

TrendFactorFromHistory(forecastDays, historicalFlares, historicalVolatility) ==
  TrendFactorFromAverages(forecastDays,
    analyzeTrend(historicalFlares, historicalVolatility),
    DecOf(calculateAverage(Arr(historicalFlares))),
    DecOf(calculateAverage(Arr(historicalVolatility))))

\* getForecastDataInternal of forecast.ts once Promise.all has both arrays.
getForecastDataByTrendFactor(options, nasaEvents, quotes) ==
  IF calculateVolatilityThrows(quotes)
  THEN getEmptyForecastData(DaysOrDefault(options))
  ELSE TrendFactorFromHistory(DaysOrDefault(options),
         FlareColumnOf(transformFlareData(nasaEvents)),
         VolatilityColumnOf(calculateVolatility(quotes)))

\* ------------------------------------------------------------------------
\* simulator: getSimulatorData
\* ------------------------------------------------------------------------
\* Math.floor(a)
ffloor(a) == IF a.k = "fin" THEN Fin((a.v \div Unit) * Unit) ELSE a

ScenarioTypes == {"baseline", "high_solar", "low_solar", "extreme_event"}
\* options: a scenario ("" when it names none) and days (0 when it names none)
SimulatorOptions(scenario, days) == [scenario |-> scenario, days |-> days]
\* options?.scenario || 'baseline'
ScenarioOrDefault(options) ==
  IF options.scenario = "" THEN "baseline" ELSE options.scenario
\* options?.days || 14
DefaultSimulatorDays == 14
SimulatorDaysOrDefault(options) ==
  IF options.days = 0 THEN DefaultSimulatorDays ELSE options.days

getScenarioParameters(scenario) ==
  IF scenario = "high_solar"
  THEN [flareMultiplier |-> Tenths(25), volatilityMultiplier |-> Tenths(15),
        volumeMultiplier |-> Tenths(13)]
  ELSE IF scenario = "low_solar"
  THEN [flareMultiplier |-> Tenths(3), volatilityMultiplier |-> Tenths(7),
        volumeMultiplier |-> Tenths(9)]
  ELSE IF scenario = "extreme_event"
  THEN [flareMultiplier |-> Num(5), volatilityMultiplier |-> Num(3),
        volumeMultiplier |-> Num(2)]
  ELSE [flareMultiplier |-> Num(1), volatilityMultiplier |-> Num(1),
        volumeMultiplier |-> Num(1)]

\* Math.max(0.5, 1 - (i * 0.03)), in fixed point
PointConfidence(i) == MathMax(Dec(50), DecInt(1) - DecMul(DecInt(i), Dec(3)))

\* The body of the loop at day offset i, Math.random() given.
SimulatedDataPoint(scenarioParams, baselineFlare, baselineVolatility, baselineVolume, i, random) ==
  LET randomFactor == fadd(Tenths(8), fmul(random, Tenths(4)))
  IN [date |-> i,
      flare |->
        fmul(fmul(baselineFlare, scenarioParams.flareMultiplier), randomFactor),
      volatility |->
        fmul(fmul(baselineVolatility, scenarioParams.volatilityMultiplier),
             randomFactor),
      volume |->
        ffloor(fmul(fmul(baselineVolume, scenarioParams.volumeMultiplier),
                    randomFactor)),
      confidence |-> PointConfidence(i)]

\* A loop that starts at today's offset 0 and stops a day early.
generateScenarioDataFromToday(scenario, days, baselineFlare, baselineVolatility, baselineVolume, random) ==
  [i \in 1..days |->
     SimulatedDataPoint(getScenarioParameters(scenario), baselineFlare,
                        baselineVolatility, baselineVolume, i - 1, random[i])]

\* generateScenarioData: random[i] is what Math.random() gives in round i.
generateScenarioData(scenario, days, baselineFlare, baselineVolatility, baselineVolume, random) ==
  [i \in 1..days |->
     SimulatedDataPoint(getScenarioParameters(scenario), baselineFlare,
                        baselineVolatility, baselineVolume, i, random[i])]

\* if (riskScore > 10) ... > 5 ... > 2, with bounds that are included.
determineRiskLevelInclusive(avgFlare, avgVolatility) ==
  LET riskScore == fadd(fmul(avgFlare, Tenths(5)), fmul(avgVolatility, Tenths(5)))
  IN IF fle(Num(10), riskScore) THEN "extreme"
     ELSE IF fle(Num(5), riskScore) THEN "high"
     ELSE IF fle(Num(2), riskScore) THEN "medium" ELSE "low"

determineRiskLevel(avgFlare, avgVolatility) ==
  LET riskScore == fadd(fmul(avgFlare, Tenths(5)), fmul(avgVolatility, Tenths(5)))
  IN IF flt(Num(10), riskScore) THEN "extreme"
     ELSE IF flt(Num(5), riskScore) THEN "high"
     ELSE IF flt(Num(2), riskScore) THEN "medium" ELSE "low"

getEmptySimulatorData(scenario, days) ==
  [scenario |-> scenario, simulatedData |-> <<>>,
   summary |-> [avgFlare |-> Zero, avgVolatility |-> Zero,
                totalVolume |-> Zero, riskLevel |-> "low"]]

\* Field f of every point.
PointColumn(simulatedData, f) ==
  [i \in 1..Len(simulatedData) |-> simulatedData[i][f]]

SummaryOf(avgFlare, avgVolatility, totalVolume) ==
  [avgFlare |-> avgFlare, avgVolatility |-> avgVolatility,
   totalVolume |-> totalVolume,
   riskLevel |-> determineRiskLevel(avgFlare, avgVolatility)]

\* The summary statistics and the simulatorData built from the points.
SimulatorOf(scenario, simulatedData) ==
  [scenario |-> scenario, simulatedData |-> simulatedData,
   summary |->
     SummaryOf(calculateAverage(Arr(PointColumn(simulatedData, "flare"))),
               calculateAverage(Arr(PointColumn(simulatedData, "volatility"))),
               ReduceSum(PointColumn(simulatedData, "volume"), Zero, 1))]

\* The baseline: the average of a column, or the default when it is empty.
BaselineOf(column, default) ==
  IF Len(column) > 0 THEN calculateAverage(Arr(column)) ELSE default

VolumeColumnOf(records) == [i \in 1..Len(records) |-> records[i].volume]

SimulatorFromData(scenario, days, flareRecords, stockRecords, random) ==
  SimulatorOf(scenario,
    generateScenarioData(scenario, days,
      BaselineOf(FlareColumnOf(flareRecords), Num(1)),
      BaselineOf(VolatilityColumnOf(stockRecords), Num(2)),
      BaselineOf(VolumeColumnOf(stockRecords), Num(1000000)), random))

\* getSimulatorDataInternal once Promise.all has both arrays.
getSimulatorDataInternal(options, nasaEvents, quotes, random) ==
  IF calculateVolatilityThrows(quotes)
  THEN getEmptySimulatorData(ScenarioOrDefault(options),
                             SimulatorDaysOrDefault(options))
  ELSE SimulatorFromData(ScenarioOrDefault(options),
                         SimulatorDaysOrDefault(options),
                         transformFlareData(nasaEvents),
                         calculateVolatility(quotes), random)

\* ------------------------------------------------------------------------
\* StockClient.getStockData: symbol validation and provider fallback
\* ------------------------------------------------------------------------
\* A symbol is a sequence of characters.
Whitespace == {" "}
\* /^[A-Z0-9^.\-]+$/
SymbolCharacters == {"A", "B", "1", "^", ".", "-"}
\* if (trimmedSymbol.length < 1 || trimmedSymbol.length > 10)
MaxSymbolLength == 10

RECURSIVE TrimStart(_)
TrimStart(s) ==
  IF s # <<>> /\ Head(s) \in Whitespace THEN TrimStart(Tail(s)) ELSE s

RECURSIVE TrimEnd(_)
TrimEnd(s) ==
  IF s # <<>> /\ s[Len(s)] \in Whitespace
  THEN TrimEnd(SubSeq(s, 1, Len(s) - 1))
  ELSE s

\* symbol.trim()
Trim(s) == TrimEnd(TrimStart(s))

validateStockSymbol(symbol) ==
  IF symbol = <<>>
  THEN [valid |-> FALSE, error |-> "Symbol must be a non-empty string"]
  ELSE IF Len(Trim(symbol)) < 1 \/ Len(Trim(symbol)) > MaxSymbolLength
  THEN [valid |-> FALSE, error |-> "Symbol must be 1-10 characters long"]
  ELSE IF \E k \in 1..Len(Trim(symbol)) : Trim(symbol)[k] \notin SymbolCharacters
  THEN [valid |-> FALSE, error |-> "Symbol must contain only uppercase letters, numbers, ^, -, or ."]
  ELSE [valid |-> TRUE, error |-> ""]

allProviders == <<"yahoo", "alphavantage", "finnhub">>

\* A fallback list that keeps the primary provider.
getFallbackProvidersUnfiltered(provider) == allProviders

\* allProviders.filter(p => p !== this.config.provider)
getFallbackProviders(provider) == SelectSeq(allProviders, LAMBDA p : p # provider)

\* fetchFromProvider: the switch has a case for each of the three providers
\* and throws for any other name.
KnownProvider(provider) == \E k \in 1..Len(allProviders) : allProviders[k] = provider

\* getEmptyStockQuotes()
getEmptyStockQuotes == <<>>

\* ------------------------------------------------------------------------
\* getComparisonData
\* ------------------------------------------------------------------------
\* options?.symbols || ['AAPL', 'MSFT', 'GOOGL']
DefaultSymbols == <<"AAPL", "MSFT", "GOOGL">>
NoSymbols == [given |-> FALSE, symbols |-> <<>>]
ComparisonOptions(symbols) == [given |-> TRUE, symbols |-> symbols]
SymbolsOrDefault(options) ==
  IF options.given THEN options.symbols ELSE DefaultSymbols

\* What the async function mapped over the symbols resolves with: the stock
\* data of the quotes, or success: false when calculateVolatility threw.
SymbolResult(symbol, quotes) ==
  IF calculateVolatilityThrows(quotes)
  THEN [symbol |-> symbol, stockData |-> <<>>, success |-> FALSE]
  ELSE [symbol |-> symbol, stockData |-> calculateVolatility(quotes), success |-> TRUE]

Fulfilled(value) == [status |-> "fulfilled", value |-> value]
Pending == [status |-> "pending", value |-> <<>>]

CloseColumnOf(records) == [i \in 1..Len(records) |-> records[i].close]

EmptyComparison(symbol) ==
  [symbol |-> symbol, avgVolatility |-> Zero, maxVolatility |-> Zero,
   avgClose |-> Zero, maxClose |-> Zero, totalVolume |-> Zero,
   dataPoints |-> 0]

StockComparison(symbol, stockData) ==
  [symbol |-> symbol,
   avgVolatility |-> calculateAverage(Arr(VolatilityColumnOf(stockData))),
   maxVolatility |-> calculateMax(Arr(VolatilityColumnOf(stockData))),
   avgClose |-> calculateAverage(Arr(CloseColumnOf(stockData))),
   maxClose |-> calculateMax(Arr(CloseColumnOf(stockData))),
   totalVolume |-> ReduceSum(VolumeColumnOf(stockData), Zero, 1),
   dataPoints |-> Len(stockData)]

Succeeded(result) == result.status = "fulfilled" /\ result.value.success

RECURSIVE ComparisonsOfSucceeded(_, _)
\* Comparisons of the symbols that were fetched only.
ComparisonsOfSucceeded(symbols, results) ==
  IF symbols = <<>> THEN <<>>
  ELSE (IF Succeeded(Head(results))
        THEN <<StockComparison(Head(symbols), Head(results).value.stockData)>>
        ELSE <<>>)
       \o ComparisonsOfSucceeded(Tail(symbols), Tail(results))

\* for (let i = 0; i < symbols.length; i++): one comparison pushed per round
ComparisonsOf(symbols, results) ==
  [i \in 1..Len(symbols) |->
     IF Succeeded(results[i])
     THEN StockComparison(symbols[i], results[i].value.stockData)
     ELSE EmptyComparison(symbols[i])]

\* stockDataMap after the loop: the stock data last set for the symbol, if any
StockDataMapHas(symbols, results, symbol) ==
  \E i \in 1..Len(symbols) : symbols[i] = symbol /\ Succeeded(results[i])
StockDataMapGet(symbols, results, symbol) ==
  LET last == CHOOSE i \in 1..Len(symbols) :
                /\ symbols[i] = symbol /\ Succeeded(results[i])
                /\ \A j \in (i + 1)..Len(symbols) :
                     ~(symbols[j] = symbol /\ Succeeded(results[j]))
  IN results[last].value.stockData

\* allDates: the dates of every stock data of the map
AllDates(symbols, results) ==
  UNION {{results[i].value.stockData[k].date :
            k \in 1..Len(results[i].value.stockData)} :
         i \in {j \in 1..Len(symbols) : Succeeded(results[j])}}

RECURSIVE SortedFrom(_)
\* Array.from(allDates).sort(): ascending by code units
SortedFrom(dates) ==
  IF dates = {} THEN <<>>
  ELSE LET first == CHOOSE d \in dates :
                      \A e \in dates : LocaleCompare(d.s, e.s) <= 0
       IN <<first>> \o SortedFrom(dates \ {first})

\* stockData.find(d => d.date === date): the volatility of the first point
\* of that date, 0 when there is none
VolatilityOn(stockData, date) ==
  IF \E k \in 1..Len(stockData) : stockData[k].date = date
  THEN stockData[CHOOSE k \in 1..Len(stockData) :
                   /\ stockData[k].date = date
                   /\ \A j \in 1..(k - 1) : stockData[j].date # date].volatility
  ELSE Zero

\* dataPoint: the date and, under each symbol, its volatility on that date
TimeSeriesPoint(symbols, results, date) ==
  [date |-> date,
   volatility |->
     [symbol \in {symbols[i] : i \in 1..Len(symbols)} |->
        IF StockDataMapHas(symbols, results, symbol)
        THEN VolatilityOn(StockDataMapGet(symbols, results, symbol), date)
        ELSE Zero]]

generateTimeSeriesData(symbols, results) ==
  LET sortedDates == SortedFrom(AllDates(symbols, results))
  IN [k \in 1..Len(sortedDates) |->
        TimeSeriesPoint(symbols, results, sortedDates[k])]

RECURSIVE ExtremeFrom(_, _, _, _, _)
\* for (const comp of validComparisons): the comparison kept after the rounds
\* from index i on, replaced when comp[field] is strictly above (or below)
ExtremeFrom(validComparisons, i, kept, field, above) ==
  IF i > Len(validComparisons) THEN kept
  ELSE ExtremeFrom(validComparisons, i + 1,
                   IF (IF above
                       THEN flt(kept[field], validComparisons[i][field])
                       ELSE flt(validComparisons[i][field], kept[field]))
                   THEN validComparisons[i] ELSE kept,
                   field, above)

NoSummary ==
  [mostVolatile |-> "N/A", leastVolatile |-> "N/A",
   highestPrice |-> "N/A", lowestPrice |-> "N/A"]

SummaryOfValid(validComparisons) ==
  IF Len(validComparisons) = 0 THEN NoSummary
  ELSE [mostVolatile |-> ExtremeFrom(validComparisons, 1, validComparisons[1], "avgVolatility", TRUE).symbol,
        leastVolatile |-> ExtremeFrom(validComparisons, 1, validComparisons[1], "avgVolatility", FALSE).symbol,
        highestPrice |-> ExtremeFrom(validComparisons, 1, validComparisons[1], "avgClose", TRUE).symbol,
        lowestPrice |-> ExtremeFrom(validComparisons, 1, validComparisons[1], "avgClose", FALSE).symbol]

generateSummary(comparisons) ==
  SummaryOfValid(SelectSeq(comparisons, LAMBDA c : c.dataPoints > 0))

getEmptyComparisonData(symbols) ==
  [symbols |-> symbols,
   comparisons |-> [i \in 1..Len(symbols) |-> EmptyComparison(symbols[i])],
   timeSeriesData |-> <<>>,
   summary |-> NoSummary]

\* getComparisonDataInternal after Promise.allSettled has resolved
ComparisonDataOf(symbols, results) ==
  [symbols |-> symbols,
   comparisons |-> ComparisonsOf(symbols, results),
   timeSeriesData |-> generateTimeSeriesData(symbols, results),
   summary |-> generateSummary(ComparisonsOf(symbols, results))]

\* ------------------------------------------------------------------------
\* getDashboardData: options key, React cache() and unstable_cache()
\* ------------------------------------------------------------------------
\* An options object is its properties in the order they were set; a property
\* may hold undefined.
NoDashboardOptions == [given |-> FALSE, entries |-> <<>>]
DashboardOptions(entries) == [given |-> TRUE, entries |-> entries]
Property(name, value) == [name |-> name, defined |-> TRUE, value |-> value]
UndefinedProperty(name) == [name |-> name, defined |-> FALSE, value |-> ""]
OptionNames == {"startDate", "endDate", "stockSymbol"}

\* options?.[name]
OptionValue(options, name) ==
  IF \E k \in 1..Len(options.entries) :
       options.entries[k].name = name /\ options.entries[k].defined
  THEN LET k == CHOOSE j \in 1..Len(options.entries) :
                  options.entries[j].name = name /\ options.entries[j].defined
       IN [defined |-> TRUE, value |-> options.entries[k].value]
  ELSE [defined |-> FALSE, value |-> ""]

RECURSIVE StringifyMembers(_)
\* The members JSON.stringify writes, in property order: a property that holds
\* undefined is left out. A text is a sequence of tokens.
StringifyMembers(entries) ==
  IF entries = <<>> THEN <<>>
  ELSE IF ~Head(entries).defined THEN StringifyMembers(Tail(entries))
  ELSE LET rest == StringifyMembers(Tail(entries))
       IN <<Head(entries).name, ":", Head(entries).value>>
          \o (IF rest = <<>> THEN <<>> ELSE <<",">> \o rest)

\* JSON.stringify(options)
JSONStringify(options) == <<"{">> \o StringifyMembers(options.entries) \o <<"}">>

\* const optionsKey = options ? JSON.stringify(options) : ''
OptionsKeyOf(options) == IF options.given THEN JSONStringify(options) ELSE <<>>

RECURSIVE ParseMembers(_)
ParseMembers(tokens) ==
  IF Len(tokens) < 3 THEN <<>>
  ELSE <<Property(tokens[1], tokens[3])>>
       \o ParseMembers(SubSeq(tokens, 5, Len(tokens)))

\* JSON.parse(optionsKey)
JSONParse(text) == DashboardOptions(ParseMembers(SubSeq(text, 2, Len(text) - 1)))

\* const options = optionsKey ? JSON.parse(optionsKey) : undefined
OptionsOfKey(optionsKey) ==
  IF optionsKey = <<>> THEN NoDashboardOptions ELSE JSONParse(optionsKey)

\* revalidate: 1800
RevalidateSeconds == 1800

\* The promise cache() holds for an argument in a render cycle, as a position
\* in the runs; 0 when it holds none.
MemoizedRun(runs, cycle, optionsKey) ==
  IF \E r \in 1..Len(runs) : runs[r].cycle = cycle /\ runs[r].key = optionsKey
  THEN CHOOSE r \in 1..Len(runs) : runs[r].cycle = cycle /\ runs[r].key = optionsKey
  ELSE 0

\* unstable_cache: the entry stored under the arguments is served while it is
\* younger than the revalidation period.
FreshEntries(persistentCache, optionsKey, now) ==
  {e \in persistentCache : e.key = optionsKey /\ now - e.storedAt < RevalidateSeconds}

\* ------------------------------------------------------------------------
\* SimulatorDashboard
\* ------------------------------------------------------------------------
\* The slider's value is carried in tenths: useState(5) is 50, the slider
\* runs from 0.5 to 10 in steps of 0.5.
InitialIntensity == 50
SliderMin == 5
SliderMax == 100
SliderStep == 5
SliderValues ==
  {SliderMin + k * SliderStep : k \in 0..((SliderMax - SliderMin) \div SliderStep)}

determineScenario(intensity) ==
  IF intensity >= 80 THEN "extreme_event"
  ELSE IF intensity >= 50 THEN "high_solar"
  ELSE IF intensity <= 20 THEN "low_solar"
  ELSE "baseline"

\* getSimulatorData({ scenario, days: 14 })
DashboardSimulatorDays == 14

\* useState<SimulatorData | null>(null)
NoData == [present |-> FALSE, value |-> getEmptySimulatorData("baseline", 0)]
Data(value) == [present |-> TRUE, value |-> value]

\* setSampleSimulatorData
SampleSimulatorData ==
  [scenario |-> "baseline", simulatedData |-> <<>>,
   summary |-> [avgFlare |-> Tenths(25), avgVolatility |-> Num(5),
                totalVolume |-> Num(1000000), riskLevel |-> "medium"]]

\* ------------------------------------------------------------------------
\* State
\* ------------------------------------------------------------------------
VARIABLES
  pc,              \* where the run stands
  flareData,       \* mergeDatasets: first argument
  stockData,       \* mergeDatasets: second argument
  composedData,    \* mergeDatasets: what it returned
  x,               \* calculateCorrelation: first argument
  y,               \* calculateCorrelation: second argument
  correlation,     \* calculateCorrelation: what it returned
  values,          \* calculateAverage / calculateMax / calculateSum: argument
  aggregate,       \* what the statistics helper returned
  nasaPromise,     \* getDashboardData: state of nasaClient.getFlareEvents(...)
  stockPromise,    \* getDashboardData: state of stockClient.getStockData(...)
  nasaRawEvents,   \* getDashboardData: what the NASA side of Promise.all gave
  stockQuotes,     \* getDashboardData: what the stock side of Promise.all gave
  dashboardData,   \* getDashboardData: what it returned
  intensity,       \* categorizeIntensity: argument
  category,        \* categorizeIntensity: what it returned
  analysisData,    \* getAnalysisData: what it returned
  timeSeriesData,  \* AnalysisDashboard: data.timeSeriesData (missing: no data)
  lagCorrelation,  \* AnalysisDashboard: what calculateLagCorrelation returned
  correlationOverTime, \* AnalysisDashboard: what calculateRollingCorrelation returned
  lagDays,         \* calculateLagCorrelation: argument
  correlationWindow, \* AnalysisDashboard: the window size selected
  flares,          \* analyzeTrend: first argument
  volatility,      \* analyzeTrend: second argument
  trend,           \* analyzeTrend: what it returned
  forecastOptions, \* getForecastData: the options argument
  forecastData,    \* getForecastData: what it returned
  simulatorOptions, \* getSimulatorData: the options argument
  simulatorData,   \* getSimulatorData: what it returned
  avgFlare,        \* determineRiskLevel: first argument
  avgVolatility,   \* determineRiskLevel: second argument
  riskLevel,       \* determineRiskLevel: what it returned
  volatilityData,  \* calculateVolatility: what it returned
  configProvider,  \* StockClient: this.config.provider
  requestSymbol,   \* getStockData: the symbol argument
  fallbackProviders, \* getStockData: const fallbackProviders
  fallbackIndex,   \* getStockData: position of the for loop in fallbackProviders
  attemptedProviders, \* fetchFromProvider: the providers it was called with, in order
  attemptOutcomes, \* fetchFromProvider: how each call settled, in order
  stockResult,      \* getStockData: what it returned
  comparisonOptions, \* getComparisonData: the options argument
  symbolPromises,  \* getComparisonData: the promises given to Promise.allSettled
  completionOrder, \* getComparisonData: the positions of the symbols whose fetch has completed, in order of completion
  comparisonData,   \* getComparisonData: what it returned
  clock,           \* seconds since the server started
  renderCycle,     \* the render cycle (server request) in progress
  runs,            \* getDashboardDataInternal: the runs started, each with the promise cache() holds for it
  persistentCache, \* unstable_cache: the entries stored
  requesters,       \* the calls of getDashboardData and getCachedDashboardData made
  flareIntensity,  \* SimulatorDashboard: useState(5), in tenths
  displayedData,   \* SimulatorDashboard: data, useState<SimulatorData | null>(null)
  loading,         \* SimulatorDashboard: useState(true)
  currentScenario, \* SimulatorDashboard: useState<ScenarioType>('baseline')
  inFlight         \* SimulatorDashboard: the scenarios of the getSimulatorData calls not yet settled, in the order they were made

mergeVars == <<flareData, stockData, composedData>>
corrVars == <<x, y, correlation>>
statVars == <<values, aggregate>>
dashVars == <<nasaPromise, stockPromise, nasaRawEvents, stockQuotes, dashboardData>>
categoryVars == <<intensity, category>>
chartVars ==
  <<timeSeriesData, lagCorrelation, correlationOverTime, lagDays,
    correlationWindow>>
trendVars == <<flares, volatility, trend>>
analyticsVars == <<categoryVars, analysisData, chartVars, trendVars>>
forecastVars == <<forecastOptions, forecastData>>
simulatorVars == <<simulatorOptions, simulatorData>>
riskVars == <<avgFlare, avgVolatility, riskLevel>>
clientVars ==
  <<configProvider, requestSymbol, fallbackProviders, fallbackIndex,
    attemptedProviders, attemptOutcomes, stockResult>>
comparisonVars ==
  <<comparisonOptions, symbolPromises, completionOrder, comparisonData>>
cacheVars == <<clock, renderCycle, runs, persistentCache, requesters>>
uiVars == <<flareIntensity, displayedData, loading, currentScenario, inFlight>>
sessionVars == <<clientVars, comparisonVars, cacheVars, uiVars>>
serviceVars ==
  <<forecastVars, simulatorVars, riskVars, volatilityData, sessionVars>>
vars ==
  <<pc, mergeVars, corrVars, statVars, dashVars, analyticsVars, serviceVars>>

MergeIdle ==
  flareData = Missing /\ stockData = Missing /\ composedData = Ok(<<>>)
CorrIdle == x = Missing /\ y = Missing /\ correlation = Ok(Zero)
StatIdle == values = Missing /\ aggregate = Ok(Zero)
DashIdle ==
  /\ nasaPromise = "none"
  /\ stockPromise = "none"
  /\ nasaRawEvents = <<>>
  /\ stockQuotes = <<>>
  /\ dashboardData = Ok(getEmptyDashboardData)
CategoryIdle == intensity = Zero /\ category = "Low"
AnalysisIdle == analysisData = Ok(getEmptyAnalysisData)
\* useState(5)
DefaultWindow == 5
ChartIdle ==
  /\ timeSeriesData = Missing
  /\ lagCorrelation = Ok(Zero)
  /\ correlationOverTime = Ok(<<>>)
  /\ lagDays = 0
  /\ correlationWindow = DefaultWindow
TrendIdle == flares = <<>> /\ volatility = <<>> /\ trend = "stable"
AnalyticsIdle == CategoryIdle /\ AnalysisIdle /\ ChartIdle /\ TrendIdle
ForecastIdle ==
  forecastOptions = NoOptions /\ forecastData = getEmptyForecastData(0)
SimulatorIdle ==
  /\ simulatorOptions = SimulatorOptions("", 0)
  /\ simulatorData = getEmptySimulatorData("baseline", 0)
RiskIdle == avgFlare = Zero /\ avgVolatility = Zero /\ riskLevel = "low"
VolatilityIdle == volatilityData = Ok(<<>>)
\* new StockClient(): provider 'yahoo' unless configured otherwise
ClientIdle ==
  /\ configProvider = "yahoo"
  /\ requestSymbol = <<>>
  /\ fallbackProviders = <<>>
  /\ fallbackIndex = 0
  /\ attemptedProviders = <<>>
  /\ attemptOutcomes = <<>>
  /\ stockResult = Ok(getEmptyStockQuotes)
ComparisonIdle ==
  /\ comparisonOptions = NoSymbols
  /\ symbolPromises = <<>>
  /\ completionOrder = <<>>
  /\ comparisonData = getEmptyComparisonData(<<>>)
CacheIdle ==
  /\ clock = 0
  /\ renderCycle = 1
  /\ runs = <<>>
  /\ persistentCache = {}
  /\ requesters = <<>>
UiIdle ==
  /\ flareIntensity = InitialIntensity
  /\ displayedData = NoData
  /\ loading = TRUE
  /\ currentScenario = "baseline"
  /\ inFlight = <<>>
SessionIdle == ClientIdle /\ ComparisonIdle /\ CacheIdle /\ UiIdle
ServiceIdle ==
  ForecastIdle /\ SimulatorIdle /\ RiskIdle /\ VolatilityIdle /\ SessionIdle

\* ------------------------------------------------------------------------
\* mergeDatasets on inputs built record by record
\* ------------------------------------------------------------------------
\* Most records the two inputs hold together.
MaxRecs == 4

D2 == Str(<<2>>)
D10 == Str(<<1, 0>>)
D1 == Str(<<1>>)
FlareDomain ==
  { FlareRec(D2, Num(1)), FlareRec(D2, Num(3)),
    FlareRec(D10, Num(2)), FlareRec(D10, NaN),
    FlareRec(D1, PosInf),
    FlareRec(Str(<<>>), Num(1)), FlareRec(NumDate(2), Num(1)),
    NoFlare }
StockDomain ==
  { StockRec(D2, Num(1), Num(5)), StockRec(D2, Num(3), Num(7)),
    StockRec(D10, Num(2), Num(5)), StockRec(D10, PosInf, Num(5)),
    StockRec(D10, Num(1), NaN),
    StockRec(D1, Num(1), Null),
    StockRec(Str(<<>>), Num(1), Num(5)),
    NoStock }

InitMerge ==
  /\ pc = "input"
  /\ flareData \in {Missing, Arr(<<>>)}
  /\ stockData \in {Missing, Arr(<<>>)}
  /\ composedData = Ok(<<>>)
  /\ ServiceIdle
  /\ CorrIdle /\ StatIdle /\ DashIdle /\ AnalyticsIdle

PushFlare ==
  /\ pc = "input"
  /\ flareData.present
  /\ Len(flareData.items) + Len(stockData.items) < MaxRecs
  /\ \E rec \in FlareDomain : flareData' = Arr(Append(flareData.items, rec))
  /\ UNCHANGED <<serviceVars, pc, stockData, composedData, corrVars, statVars, dashVars, analyticsVars>>

PushStock ==
  /\ pc = "input"
  /\ stockData.present
  /\ Len(flareData.items) + Len(stockData.items) < MaxRecs
  /\ \E rec \in StockDomain : stockData' = Arr(Append(stockData.items, rec))
  /\ UNCHANGED <<serviceVars, pc, flareData, composedData, corrVars, statVars, dashVars, analyticsVars>>

CallMerge ==
  /\ pc = "input"
  /\ composedData' = mergeDatasets(flareData, stockData)
  /\ pc' = "merged"
  /\ UNCHANGED <<serviceVars, flareData, stockData, corrVars, statVars, dashVars, analyticsVars>>

NextMerge == PushFlare \/ PushStock \/ CallMerge

SpecMerge == InitMerge /\ [][NextMerge]_vars

\* ------------------------------------------------------------------------
\* calculateCorrelation on bounded inputs
\* ------------------------------------------------------------------------
XValues == {Num(1), Num(3), Num(32), NaN, Null}
YValues == {Num(2), Num(6), Num(64), PosInf}

InitCorr ==
  /\ pc = "input"
  /\ x \in {Missing} \cup {Arr(s) : s \in SeqsUpTo(XValues, MaxLen)}
  /\ y \in {Missing} \cup {Arr(s) : s \in SeqsUpTo(YValues, MaxLen)}
  /\ correlation = Ok(Zero)
  /\ ServiceIdle
  /\ MergeIdle /\ StatIdle /\ DashIdle /\ AnalyticsIdle

CallCorrelation ==
  /\ pc = "input"
  /\ correlation' = Ok(calculateCorrelation(x, y))
  /\ pc' = "correlated"
  /\ UNCHANGED <<serviceVars, x, y, mergeVars, statVars, dashVars, analyticsVars>>

NextCorr == CallCorrelation

SpecCorr == InitCorr /\ [][NextCorr]_vars

\* ------------------------------------------------------------------------
\* calculateAverage, calculateMax, calculateSum on bounded inputs
\* ------------------------------------------------------------------------
StatValues == {Num(1), Num(3), Num(-2), Num(-5), Num(64), NaN, NegInf, Null}

InitStats ==
  /\ pc = "input"
  /\ values \in {Missing} \cup {Arr(s) : s \in SeqsUpTo(StatValues, MaxLen)}
  /\ aggregate = Ok(Zero)
  /\ ServiceIdle
  /\ MergeIdle /\ CorrIdle /\ DashIdle /\ AnalyticsIdle

CallAverage ==
  /\ pc = "input"
  /\ aggregate' = Ok(calculateAverage(values))
  /\ pc' = "average"
  /\ UNCHANGED <<serviceVars, values, mergeVars, corrVars, dashVars, analyticsVars>>

CallMax ==
  /\ pc = "input"
  /\ aggregate' = Ok(calculateMax(values))
  /\ pc' = "max"
  /\ UNCHANGED <<serviceVars, values, mergeVars, corrVars, dashVars, analyticsVars>>

CallSum ==
  /\ pc = "input"
  /\ aggregate' = Ok(calculateSum(values))
  /\ pc' = "sum"
  /\ UNCHANGED <<serviceVars, values, mergeVars, corrVars, dashVars, analyticsVars>>

NextStats == CallAverage \/ CallMax \/ CallSum

SpecStats == InitStats /\ [][NextStats]_vars

\* ------------------------------------------------------------------------
\* getDashboardData: two fetches in flight, then the synchronous rest
\* ------------------------------------------------------------------------
\* Most raw events, and most quotes, a fetch resolves with.
MaxFetched == 2

EventDomain ==
  { RawEvent(ClassStr(<<"M", "2">>), PeakTime(1)),
    RawEvent(ClassStr(<<"X", "1">>), PeakTime(2)),
    RawEvent(ClassStr(<<"B", "3">>), PeakTime(1)) }
QuoteDomain ==
  { Quote(1 * SecondsPerDay, Num(3), Num(2), Num(2), Num(10)),
    Quote(2 * SecondsPerDay + 3600, Num(4), Num(3), Num(4), Num(12)),
    Quote(3 * SecondsPerDay, Num(2), Num(2), Num(2), Num(8)) }

Init ==
  /\ pc = "idle"
  /\ ServiceIdle
  /\ MergeIdle /\ CorrIdle /\ StatIdle /\ DashIdle /\ AnalyticsIdle

\* getDashboardDataInternal up to its await: both calls are made, each with
\* its own catch handler, and Promise.all waits for the two.
CallDashboard ==
  /\ pc = "idle"
  /\ nasaPromise' = "pending"
  /\ stockPromise' = "pending"
  /\ pc' = "awaiting"
  /\ UNCHANGED <<serviceVars, nasaRawEvents, stockQuotes, dashboardData, mergeVars, corrVars, statVars, analyticsVars>>

\* nasaClient.getFlareEvents(startDate, endDate) resolves.
NasaResolve ==
  /\ nasaPromise = "pending"
  /\ \E events \in SeqsUpTo(EventDomain, MaxFetched) : nasaRawEvents' = events
  /\ nasaPromise' = "resolved"
  /\ UNCHANGED <<serviceVars, pc, stockPromise, stockQuotes, dashboardData, mergeVars, corrVars, statVars, analyticsVars>>

\* It rejects: the catch handler logs and returns [].
NasaReject ==
  /\ nasaPromise = "pending"
  /\ nasaRawEvents' = <<>>
  /\ nasaPromise' = "rejected"
  /\ UNCHANGED <<serviceVars, pc, stockPromise, stockQuotes, dashboardData, mergeVars, corrVars, statVars, analyticsVars>>

\* stockClient.getStockData(stockSymbol, '1mo') resolves.
StockResolve ==
  /\ stockPromise = "pending"
  /\ \E quotes \in SeqsUpTo(QuoteDomain, MaxFetched) : stockQuotes' = quotes
  /\ stockPromise' = "resolved"
  /\ UNCHANGED <<serviceVars, pc, nasaPromise, nasaRawEvents, dashboardData, mergeVars, corrVars, statVars, analyticsVars>>

\* It rejects: the catch handler logs and returns [].
StockReject ==
  /\ stockPromise = "pending"
  /\ stockQuotes' = <<>>
  /\ stockPromise' = "rejected"
  /\ UNCHANGED <<serviceVars, pc, nasaPromise, nasaRawEvents, dashboardData, mergeVars, corrVars, statVars, analyticsVars>>

\* Promise.all has both values: the rest of getDashboardDataInternal runs.
ReturnDashboard ==
  /\ pc = "awaiting"
  /\ nasaPromise \in {"resolved", "rejected"}
  /\ stockPromise \in {"resolved", "rejected"}
  /\ dashboardData' = Ok(Assemble(nasaRawEvents, stockQuotes))
  /\ pc' = "returned"
  /\ UNCHANGED <<serviceVars, nasaPromise, stockPromise, nasaRawEvents, stockQuotes, mergeVars, corrVars, statVars, analyticsVars>>

Next ==
  \/ CallDashboard
  \/ NasaResolve
  \/ NasaReject
  \/ StockResolve
  \/ StockReject
  \/ ReturnDashboard

Spec == Init /\ [][Next]_vars

\* ------------------------------------------------------------------------
\* categorizeIntensity on every number up to a magnitude
\* ------------------------------------------------------------------------
\* Largest magnitude of a finite argument of categorizeIntensity.
MaxIntensity == 10

\* Every finite number of magnitude at most MaxIntensity, and the values that
\* are not finite numbers.
IntensityDomain ==
  {Rnd(i, 1) : i \in (-(MaxIntensity * Unit))..(MaxIntensity * Unit)}
  \cup {NaN, PosInf, NegInf, Null}

InitCategorize ==
  /\ pc = "input"
  /\ intensity \in IntensityDomain
  /\ category = "Low"
  /\ ServiceIdle
  /\ MergeIdle /\ CorrIdle /\ StatIdle /\ DashIdle
  /\ AnalysisIdle /\ ChartIdle /\ TrendIdle

CallCategorize ==
  /\ pc = "input"
  /\ category' = categorizeIntensity(intensity)
  /\ pc' = "categorized"
  /\ UNCHANGED <<serviceVars, intensity, mergeVars, corrVars, statVars, dashVars,
                 analysisData, chartVars, trendVars>>

NextCategorize == CallCategorize

SpecCategorize == InitCategorize /\ [][NextCategorize]_vars

\* ------------------------------------------------------------------------
\* getAnalysisData and getDashboardData on fetched arrays
\* ------------------------------------------------------------------------
\* Most raw events the NASA fetch gave.
MaxEvents == 3
\* Most trading days the stock fetch gave.
MaxDays == 3

\* Two events on day 1, a lower-case class, a C-class flare, a class that
\* does not parse and a peak time that does not parse.
AnalysisEvents ==
  { RawEvent(ClassStr(<<"M", "2", ".", "5">>), PeakTime(1)),
    RawEvent(ClassStr(<<"X", "1">>), PeakTime(1)),
    RawEvent(ClassStr(<<"m", "4">>), PeakTime(2)),
    RawEvent(ClassStr(<<"C", "5">>), PeakTime(3)),
    RawEvent(ClassStr(<<"B", "3">>), PeakTime(2)),
    RawEvent(ClassStr(<<"M", "2">>), BadPeakTime) }

\* The quote of trading day d: a flat day, or a day with a range of a quarter
\* of its close.
FlatQuote(d) == Quote(d * SecondsPerDay, Num(4), Num(4), Num(4), Num(8))
WideQuote(d) == Quote(d * SecondsPerDay, Num(5), Num(4), Num(4), Num(8))
\* The quotes of days 1..n, in order, one per day.
AnalysisQuotes ==
  UNION {{q \in [1..n -> {FlatQuote(d) : d \in 1..n} \cup {WideQuote(d) : d \in 1..n}] :
            \A d \in 1..n : q[d] \in {FlatQuote(d), WideQuote(d)}} : n \in 0..MaxDays}

InitAnalysis ==
  /\ pc = "fetched"
  /\ nasaRawEvents \in SeqsUpTo(AnalysisEvents, MaxEvents)
  /\ stockQuotes \in AnalysisQuotes
  /\ nasaPromise = "none"
  /\ stockPromise = "none"
  /\ dashboardData = Ok(getEmptyDashboardData)
  /\ ServiceIdle
  /\ MergeIdle /\ CorrIdle /\ StatIdle /\ AnalyticsIdle

\* getAnalysisDataInternal once Promise.all has both arrays: transform, merge,
\* analyse.
GetAnalysis ==
  /\ pc = "fetched"
  /\ flareData' = Arr(transformFlareData(nasaRawEvents))
  /\ stockData' = Arr(calculateVolatility(stockQuotes))
  /\ composedData' = mergeDatasets(flareData', stockData')
  /\ analysisData' = Ok(Analyse(flareData'.items, stockData'.items))
  /\ pc' = "analysed"
  /\ UNCHANGED <<serviceVars, corrVars, statVars, dashVars, categoryVars, chartVars, trendVars>>

\* getDashboardDataInternal once Promise.all has both arrays.
GetDashboard ==
  /\ pc = "fetched"
  /\ dashboardData' = Ok(Assemble(nasaRawEvents, stockQuotes))
  /\ pc' = "dashboard"
  /\ UNCHANGED <<serviceVars, nasaPromise, stockPromise, nasaRawEvents, stockQuotes,
                 mergeVars, corrVars, statVars, analyticsVars>>

NextAnalysis == GetAnalysis \/ GetDashboard

SpecAnalysis == InitAnalysis /\ [][NextAnalysis]_vars

\* ------------------------------------------------------------------------
\* AnalysisDashboard on a loaded time series
\* ------------------------------------------------------------------------
\* Most records of data.timeSeriesData.
MaxSeries == 4
\* Largest window size selected.
MaxWindow == 3
\* Slider: min={3}
MinWindow == 3

FlareLevels == {Zero, Num(1), Num(2)}
VolatilityLevels == {Zero, Num(1)}
\* The time series of n merged rows, one per day, dates ascending.
TimeSeriesOf(n) ==
  {[i \in 1..n |-> [date |-> DateOfDay(i),
                    flare |-> f[i],
                    volatility |-> v[i],
                    volume |-> Num(8)]] :
     f \in [1..n -> FlareLevels], v \in [1..n -> VolatilityLevels]}

InitCharts ==
  /\ pc = "loaded"
  /\ timeSeriesData \in
       {Missing} \cup {Arr(rows) : rows \in UNION {TimeSeriesOf(n) : n \in 0..MaxSeries}}
  /\ lagCorrelation = Ok(Zero)
  /\ correlationOverTime = Ok(<<>>)
  /\ lagDays = 0
  /\ correlationWindow = DefaultWindow
  /\ ServiceIdle
  /\ MergeIdle /\ CorrIdle /\ StatIdle /\ DashIdle
  /\ CategoryIdle /\ AnalysisIdle /\ TrendIdle

\* lagData: calculateLagCorrelation(i) for an i of 0..correlationWindow
CallLag ==
  /\ pc = "loaded"
  /\ \E k \in 0..MaxWindow :
       /\ lagDays' = k
       /\ lagCorrelation' = Ok(calculateLagCorrelation(timeSeriesData, k))
  /\ pc' = "lag"
  /\ UNCHANGED <<serviceVars, timeSeriesData, correlationOverTime, correlationWindow,
                 mergeVars, corrVars, statVars, dashVars, categoryVars,
                 analysisData, trendVars>>

\* setCorrelationWindow(w) and the render after it:
\* correlationOverTime = calculateRollingCorrelation(correlationWindow)
CallRolling ==
  /\ pc = "loaded"
  /\ \E w \in MinWindow..MaxWindow :
       /\ correlationWindow' = w
       /\ correlationOverTime' =
            Ok(calculateRollingCorrelation(timeSeriesData, w))
  /\ pc' = "rolling"
  /\ UNCHANGED <<serviceVars, timeSeriesData, lagCorrelation, lagDays,
                 mergeVars, corrVars, statVars, dashVars, categoryVars,
                 analysisData, trendVars>>

NextCharts == CallLag \/ CallRolling

SpecCharts == InitCharts /\ [][NextCharts]_vars

\* ------------------------------------------------------------------------
\* analyzeTrend on the two historical series
\* ------------------------------------------------------------------------
\* Most values of a series after its older run.
MaxRecent == 4
TrendLevels == {Num(1), Num(3)}
\* A series: nothing or nine older values of 2, then up to MaxRecent values.
TrendSeries ==
  {older \o recent : older \in {<<>>, [i \in 1..(TrendWindow - 1) |-> Num(2)]},
                     recent \in SeqsUpTo(TrendLevels, MaxRecent)}

InitTrend ==
  /\ pc = "history"
  /\ flares \in TrendSeries
  /\ volatility \in TrendSeries
  /\ trend = "stable"
  /\ ServiceIdle
  /\ MergeIdle /\ CorrIdle /\ StatIdle /\ DashIdle
  /\ CategoryIdle /\ AnalysisIdle /\ ChartIdle

\* const trend = analyzeTrend(historicalFlares, historicalVolatility)
CallAnalyzeTrend ==
  /\ pc = "history"
  /\ trend' = analyzeTrend(flares, volatility)
  /\ pc' = "trend"
  /\ UNCHANGED <<serviceVars, flares, volatility, mergeVars, corrVars, statVars, dashVars,
                 categoryVars, analysisData, chartVars>>

NextTrend == CallAnalyzeTrend

SpecTrend == InitTrend /\ [][NextTrend]_vars

\* ------------------------------------------------------------------------
\* getForecastData on fetched arrays
\* ------------------------------------------------------------------------
\* Most forecast days a request names.
MaxForecastDays == 18
\* Most raw events, and most trading days, of the fetched history.
MaxHistory == 2
\* Math.random() at both ends of its range, in hundredths.
RandomLevels == {Dec(0), Dec(90)}
\* What Math.random() gives in the n rounds of the loop: one level up to
\* some round and one level after it.
RandomRuns(n, levels) ==
  {[i \in 1..n |-> IF i <= k THEN early ELSE late] :
     k \in 0..n, early \in levels, late \in levels}

ForecastEvents ==
  { RawEvent(ClassStr(<<"M", "2">>), PeakTime(1)),
    RawEvent(ClassStr(<<"X", "1">>), PeakTime(2)) }
\* A quote whose timestamp is no valid time.
InvalidTimeQuote ==
  Quote((MaxDateDay + 1) * SecondsPerDay, Num(4), Num(4), Num(4), Num(8))
\* The quotes of days 1..n, one per day, or those with a last quote whose
\* timestamp is invalid.
ForecastQuotes ==
  LET dated ==
        UNION {{q \in [1..n -> {FlatQuote(d) : d \in 1..n} \cup {WideQuote(d) : d \in 1..n}] :
                  \A d \in 1..n : q[d] \in {FlatQuote(d), WideQuote(d)}} : n \in 0..MaxHistory}
  IN dated \cup {Append(q, InvalidTimeQuote) : q \in {r \in dated : Len(r) < 2}}
\* Requests of no days, of a few, around the ten days at which the confidence
\* reaches its floor, and of the most.
ForecastDayLevels == {0, 1, 2, 9, 10, 11, MaxForecastDays - 1, MaxForecastDays}
ForecastRequests ==
  {NoOptions} \cup {ForecastOptions(days) : days \in ForecastDayLevels}

InitForecast ==
  /\ pc = "fetched"
  /\ forecastOptions \in ForecastRequests
  /\ nasaRawEvents \in SeqsUpTo(ForecastEvents, MaxHistory)
  /\ stockQuotes \in ForecastQuotes
  /\ forecastData = getEmptyForecastData(0)
  /\ SimulatorIdle /\ RiskIdle /\ VolatilityIdle
  /\ nasaPromise = "none"
  /\ stockPromise = "none"
  /\ dashboardData = Ok(getEmptyDashboardData)
  /\ SessionIdle /\ MergeIdle /\ CorrIdle /\ StatIdle /\ AnalyticsIdle

\* getForecastDataInternal once Promise.all has both arrays.
GetForecast ==
  /\ pc = "fetched"
  /\ \E random \in RandomRuns(DaysOrDefault(forecastOptions), RandomLevels) :
       forecastData' =
         getForecastDataInternal(forecastOptions, nasaRawEvents, stockQuotes,
                                 random)
  /\ pc' = "forecast"
  /\ UNCHANGED <<sessionVars, forecastOptions, simulatorVars, riskVars, volatilityData,
                 mergeVars, corrVars, statVars, dashVars, analyticsVars>>

\* The same, of lib/actions/forecast.ts.
GetForecastByTrendFactor ==
  /\ pc = "fetched"
  /\ forecastData' =
       getForecastDataByTrendFactor(forecastOptions, nasaRawEvents, stockQuotes)
  /\ pc' = "forecast"
  /\ UNCHANGED <<sessionVars, forecastOptions, simulatorVars, riskVars, volatilityData,
                 mergeVars, corrVars, statVars, dashVars, analyticsVars>>

NextForecast == GetForecast \/ GetForecastByTrendFactor

SpecForecast == InitForecast /\ [][NextForecast]_vars

\* ------------------------------------------------------------------------
\* getSimulatorData on fetched arrays
\* ------------------------------------------------------------------------
\* Most days a simulation request names.
MaxSimulatorDays == 18
\* Math.random() at the start and in the middle of its range.
RandomFactors == {Zero, Tenths(5)}
SimulatorDayLevels == {0, 1, 2, MaxSimulatorDays}
SimulatorRequests ==
  {SimulatorOptions(scenario, days) :
     scenario \in ScenarioTypes \cup {""}, days \in SimulatorDayLevels}

InitSimulator ==
  /\ pc = "fetched"
  /\ simulatorOptions \in SimulatorRequests
  /\ nasaRawEvents \in SeqsUpTo(ForecastEvents, 1)
  /\ stockQuotes \in ForecastQuotes
  /\ simulatorData = getEmptySimulatorData("baseline", 0)
  /\ nasaPromise = "none"
  /\ stockPromise = "none"
  /\ dashboardData = Ok(getEmptyDashboardData)
  /\ ForecastIdle /\ RiskIdle /\ VolatilityIdle
  /\ SessionIdle /\ MergeIdle /\ CorrIdle /\ StatIdle /\ AnalyticsIdle

\* getSimulatorDataInternal once Promise.all has both arrays.
GetSimulator ==
  /\ pc = "fetched"
  /\ \E random \in RandomRuns(SimulatorDaysOrDefault(simulatorOptions), RandomFactors) :
       simulatorData' =
         getSimulatorDataInternal(simulatorOptions, nasaRawEvents, stockQuotes,
                                  random)
  /\ pc' = "simulated"
  /\ UNCHANGED <<sessionVars, simulatorOptions, forecastVars, riskVars, volatilityData,
                 mergeVars, corrVars, statVars, dashVars, analyticsVars>>

NextSimulator == GetSimulator

SpecSimulator == InitSimulator /\ [][NextSimulator]_vars

\* ------------------------------------------------------------------------
\* determineRiskLevel on every pair of averages up to a magnitude
\* ------------------------------------------------------------------------
\* Largest magnitude of an average handed to determineRiskLevel.
MaxAverage == 12
\* Every finite number of magnitude at most MaxAverage, and the numbers that
\* are not finite.
AverageDomain ==
  {Rnd(i, 1) : i \in (-Unit)..(MaxAverage * Unit)} \cup {NaN, PosInf, NegInf}

InitRisk ==
  /\ pc = "averages"
  /\ avgFlare \in AverageDomain
  /\ avgVolatility \in AverageDomain
  /\ riskLevel = "low"
  /\ ForecastIdle /\ SimulatorIdle /\ VolatilityIdle
  /\ SessionIdle /\ MergeIdle /\ CorrIdle /\ StatIdle /\ DashIdle /\ AnalyticsIdle

\* const riskLevel = determineRiskLevel(avgFlare, avgVolatility)
CallDetermineRiskLevel ==
  /\ pc = "averages"
  /\ riskLevel' = determineRiskLevel(avgFlare, avgVolatility)
  /\ pc' = "risk"
  /\ UNCHANGED <<sessionVars, avgFlare, avgVolatility, forecastVars, simulatorVars,
                 volatilityData, mergeVars, corrVars, statVars, dashVars,
                 analyticsVars>>

NextRisk == CallDetermineRiskLevel

SpecRisk == InitRisk /\ [][NextRisk]_vars

\* ------------------------------------------------------------------------
\* calculateVolatility on quotes built field by field
\* ------------------------------------------------------------------------
\* Most quotes of the argument.
MaxQuotes == 2
\* Prices: a day's high, its low (above the high too) and its close (none,
\* negative, or positive).
HighLevels == {Num(4), Num(5), NaN}
LowLevels == {Num(4), Num(6)}
CloseLevels == {Zero, Num(4), Num(8), Fin(-(4 * Unit))}
\* The quotes of days 1..n in order, any of them with an invalid timestamp.
VolatilityQuotes ==
  UNION {{q \in [1..n -> [timestamp : {d * SecondsPerDay : d \in 1..n} \cup {(MaxDateDay + 1) * SecondsPerDay},
                          high : HighLevels, low : LowLevels,
                          close : CloseLevels, volume : {Num(8)}]] :
            \A d \in 1..n : q[d].timestamp \in {d * SecondsPerDay, (MaxDateDay + 1) * SecondsPerDay}} :
         n \in 0..MaxQuotes}

InitVolatility ==
  /\ pc = "quotes"
  /\ stockQuotes \in VolatilityQuotes
  /\ volatilityData = Ok(<<>>)
  /\ nasaPromise = "none"
  /\ stockPromise = "none"
  /\ nasaRawEvents = <<>>
  /\ dashboardData = Ok(getEmptyDashboardData)
  /\ ForecastIdle /\ SimulatorIdle /\ RiskIdle
  /\ SessionIdle /\ MergeIdle /\ CorrIdle /\ StatIdle /\ AnalyticsIdle

\* const stockData = stockClient.calculateVolatility(stockQuotes)
CallCalculateVolatility ==
  /\ pc = "quotes"
  /\ volatilityData' = calculateVolatilityResult(stockQuotes)
  /\ pc' = "volatility"
  /\ UNCHANGED <<sessionVars, forecastVars, simulatorVars, riskVars, mergeVars, corrVars,
                 statVars, dashVars, analyticsVars>>

NextVolatility == CallCalculateVolatility

SpecVolatility == InitVolatility /\ [][NextVolatility]_vars

\* ------------------------------------------------------------------------
\* StockClient.getStockData, one await at a time
\* ------------------------------------------------------------------------
\* config?.provider || process.env.STOCK_API_PROVIDER || 'yahoo': the three
\* providers, and a name the environment gives that is none of them.
ConfiguredProviders == {"yahoo", "alphavantage", "finnhub", "polygon"}

RequestSymbols ==
  { <<>>, <<" ">>, <<"A">>, <<"a">>, <<"^", "1">>, <<"A", " ", "B">>,
    <<" ", "A", "B", " ">>, [k \in 1..(MaxSymbolLength + 1) |-> "A"] }

\* What a provider's fetch can settle with: an error, or the quotes it parsed
\* (none when the response holds no data).
FetchOutcomes(provider) ==
  IF KnownProvider(provider)
  THEN {ThrewSeq, Ok(<<>>), Ok(<<FlatQuote(1)>>), Ok(<<FlatQuote(1), WideQuote(2)>>)}
  ELSE {ThrewSeq}

InitStockClient ==
  /\ pc = "client"
  /\ configProvider \in ConfiguredProviders
  /\ requestSymbol = <<>>
  /\ fallbackProviders = <<>>
  /\ fallbackIndex = 0
  /\ attemptedProviders = <<>>
  /\ attemptOutcomes = <<>>
  /\ stockResult = Ok(getEmptyStockQuotes)
  /\ ForecastIdle /\ SimulatorIdle /\ RiskIdle /\ VolatilityIdle
  /\ ComparisonIdle /\ CacheIdle /\ UiIdle /\ MergeIdle /\ CorrIdle /\ StatIdle /\ DashIdle /\ AnalyticsIdle

\* getStockData(symbol), up to its first await: an invalid symbol returns the
\* empty quotes, a valid one calls fetchFromProvider for the primary provider.
GetStockData ==
  /\ pc \in {"client", "returned"}
  /\ \E symbol \in RequestSymbols :
       /\ requestSymbol' = symbol
       /\ fallbackProviders' = <<>>
       /\ fallbackIndex' = 0
       /\ attemptOutcomes' = <<>>
       /\ IF validateStockSymbol(symbol).valid
          THEN /\ attemptedProviders' = <<configProvider>>
               /\ pc' = "primary"
               /\ UNCHANGED stockResult
          ELSE /\ attemptedProviders' = <<>>
               /\ stockResult' = Ok(getEmptyStockQuotes)
               /\ pc' = "returned"
  /\ UNCHANGED <<uiVars, cacheVars, comparisonVars, configProvider, forecastVars, simulatorVars, riskVars,
                 volatilityData, mergeVars, corrVars, statVars, dashVars,
                 analyticsVars>>

\* await this.fetchFromProvider(symbol, range, this.config.provider) settles:
\* its quotes are returned, or the catch starts the loop over the fallbacks
\* (the filter leaves at least two of the three providers).
PrimarySettles ==
  /\ pc = "primary"
  /\ \E outcome \in FetchOutcomes(configProvider) :
       /\ attemptOutcomes' = Append(attemptOutcomes, outcome)
       /\ IF ~outcome.threw
          THEN /\ stockResult' = Ok(outcome.value)
               /\ pc' = "returned"
               /\ UNCHANGED <<fallbackProviders, fallbackIndex, attemptedProviders>>
          ELSE /\ fallbackProviders' = getFallbackProviders(configProvider)
               /\ fallbackIndex' = 1
               /\ attemptedProviders' =
                    Append(attemptedProviders,
                           getFallbackProviders(configProvider)[1])
               /\ pc' = "fallback"
               /\ UNCHANGED stockResult
  /\ UNCHANGED <<uiVars, cacheVars, comparisonVars, configProvider, requestSymbol, forecastVars, simulatorVars,
                 riskVars, volatilityData, mergeVars, corrVars, statVars,
                 dashVars, analyticsVars>>

\* await this.fetchFromProvider(symbol, range, provider) settles inside the
\* loop: its quotes are returned, or the loop goes on to the next fallback;
\* after the last one the empty quotes are returned.
FallbackSettles ==
  /\ pc = "fallback"
  /\ \E outcome \in FetchOutcomes(fallbackProviders[fallbackIndex]) :
       /\ attemptOutcomes' = Append(attemptOutcomes, outcome)
       /\ IF ~outcome.threw
          THEN /\ stockResult' = Ok(outcome.value)
               /\ pc' = "returned"
               /\ UNCHANGED <<fallbackIndex, attemptedProviders>>
          ELSE IF fallbackIndex < Len(fallbackProviders)
          THEN /\ fallbackIndex' = fallbackIndex + 1
               /\ attemptedProviders' =
                    Append(attemptedProviders, fallbackProviders[fallbackIndex + 1])
               /\ UNCHANGED <<pc, stockResult>>
          ELSE /\ stockResult' = Ok(getEmptyStockQuotes)
               /\ pc' = "returned"
               /\ UNCHANGED <<fallbackIndex, attemptedProviders>>
  /\ UNCHANGED <<uiVars, cacheVars, comparisonVars, configProvider, requestSymbol, fallbackProviders,
                 forecastVars, simulatorVars, riskVars, volatilityData,
                 mergeVars, corrVars, statVars, dashVars, analyticsVars>>

NextStockClient == GetStockData \/ PrimarySettles \/ FallbackSettles

SpecStockClient == InitStockClient /\ [][NextStockClient]_vars

\* ------------------------------------------------------------------------
\* getComparisonData: the parallel fetches complete in any order
\* ------------------------------------------------------------------------
\* Most symbols a request names.
MaxSymbols == 3
SymbolNames == {"AAPL", "MSFT"}
ComparisonRequests ==
  {NoSymbols} \cup {ComparisonOptions(s) : s \in SeqsUpTo(SymbolNames, MaxSymbols)}
\* What stockClient.getStockData resolves with: no quotes (every provider
\* failed, or the symbol is invalid), quotes, or quotes that make
\* calculateVolatility throw.
FetchedQuotes == {<<>>, <<FlatQuote(1), WideQuote(2)>>, <<InvalidTimeQuote>>}

InitComparison ==
  /\ pc = "request"
  /\ comparisonOptions \in ComparisonRequests
  /\ symbolPromises = <<>>
  /\ completionOrder = <<>>
  /\ comparisonData = getEmptyComparisonData(<<>>)
  /\ ClientIdle
  /\ ForecastIdle /\ SimulatorIdle /\ RiskIdle /\ VolatilityIdle
  /\ CacheIdle /\ UiIdle /\ MergeIdle /\ CorrIdle /\ StatIdle /\ DashIdle /\ AnalyticsIdle

\* getComparisonData(options) up to await Promise.allSettled(symbols.map(...)):
\* every symbol's getStockData is in flight.
GetComparisonData ==
  /\ pc = "request"
  /\ symbolPromises' = [i \in 1..Len(SymbolsOrDefault(comparisonOptions)) |-> Pending]
  /\ pc' = "fetching"
  /\ UNCHANGED <<uiVars, cacheVars, comparisonOptions, completionOrder, comparisonData, clientVars,
                 forecastVars, simulatorVars, riskVars, volatilityData,
                 mergeVars, corrVars, statVars, dashVars, analyticsVars>>

\* The async function of one symbol runs to its end: getStockData has
\* resolved and calculateVolatility has returned or thrown.
SymbolFetchCompletes ==
  /\ pc = "fetching"
  /\ \E i \in 1..Len(symbolPromises), quotes \in FetchedQuotes :
       /\ symbolPromises[i] = Pending
       /\ symbolPromises' =
            [symbolPromises EXCEPT
               ![i] = Fulfilled(SymbolResult(SymbolsOrDefault(comparisonOptions)[i], quotes))]
       /\ completionOrder' = Append(completionOrder, i)
  /\ UNCHANGED <<uiVars, cacheVars, pc, comparisonOptions, comparisonData, clientVars,
                 forecastVars, simulatorVars, riskVars, volatilityData,
                 mergeVars, corrVars, statVars, dashVars, analyticsVars>>

\* Promise.allSettled resolves and the rest of getComparisonDataInternal runs.
AllSettled ==
  /\ pc = "fetching"
  /\ \A i \in 1..Len(symbolPromises) : symbolPromises[i] # Pending
  /\ comparisonData' = ComparisonDataOf(SymbolsOrDefault(comparisonOptions), symbolPromises)
  /\ pc' = "compared"
  /\ UNCHANGED <<uiVars, cacheVars, comparisonOptions, symbolPromises, completionOrder, clientVars,
                 forecastVars, simulatorVars, riskVars, volatilityData,
                 mergeVars, corrVars, statVars, dashVars, analyticsVars>>

NextComparison == GetComparisonData \/ SymbolFetchCompletes \/ AllSettled

SpecComparison == InitComparison /\ [][NextComparison]_vars

\* ------------------------------------------------------------------------
\* getDashboardData and getCachedDashboardData called across render cycles
\* ------------------------------------------------------------------------
\* Most calls made.
MaxRequesters == 2
\* Most render cycles.
MaxCycles == 2
\* Most steps of the clock, each of half the revalidation period.
MaxTicks == 2
TickSeconds == RevalidateSeconds \div 2

DashboardRequests ==
  { NoDashboardOptions,
    DashboardOptions(<<>>),
    DashboardOptions(<<Property("startDate", "2024-01-01"), Property("endDate", "2024-01-31")>>),
    DashboardOptions(<<Property("endDate", "2024-01-31"), Property("startDate", "2024-01-01")>>),
    DashboardOptions(<<UndefinedProperty("stockSymbol")>>) }

\* What a run of getDashboardDataInternal returns, by what the two APIs gave.
DashboardResults ==
  { Assemble(<<>>, <<>>),
    Assemble(<<RawEvent(ClassStr(<<"M", "2">>), PeakTime(1))>>, <<FlatQuote(1)>>) }

InitCache ==
  /\ pc = "serving"
  /\ clock = 0
  /\ renderCycle = 1
  /\ runs = <<>>
  /\ persistentCache = {}
  /\ requesters = <<>>
  /\ ClientIdle /\ ComparisonIdle
  /\ ForecastIdle /\ SimulatorIdle /\ RiskIdle /\ VolatilityIdle
  /\ UiIdle /\ MergeIdle /\ CorrIdle /\ StatIdle /\ DashIdle /\ AnalyticsIdle

Requester(via, options, run, startedRun, value) ==
  [via |-> via, options |-> options, key |-> OptionsKeyOf(options),
   cycle |-> renderCycle, calledAt |-> clock, run |-> run,
   startedRun |-> startedRun, value |-> value]

\* getDashboardDataDeduplicated(optionsKey), called by the function `via`:
\* cache() returns the promise it holds for the key in this render cycle, or
\* calls the function, which parses the key and starts
\* getDashboardDataInternal (one NASA call and one stock call).
CallDeduplicated(via, options) ==
  LET memoized == MemoizedRun(runs, renderCycle, OptionsKeyOf(options))
  IN IF memoized # 0
     THEN /\ requesters' = Append(requesters,
                                  Requester(via, options, memoized, FALSE, getEmptyDashboardData))
          /\ UNCHANGED runs
     ELSE /\ runs' = Append(runs, [cycle |-> renderCycle,
                                   key |-> OptionsKeyOf(options),
                                   options |-> OptionsOfKey(OptionsKeyOf(options)),
                                   settled |-> FALSE, settledAt |-> 0,
                                   value |-> getEmptyDashboardData])
          /\ requesters' = Append(requesters,
                                  Requester(via, options, Len(runs) + 1, TRUE, getEmptyDashboardData))

\* getDashboardData(options)
GetDashboardData ==
  /\ pc = "serving"
  /\ Len(requesters) < MaxRequesters
  /\ \E options \in DashboardRequests : CallDeduplicated("getDashboardData", options)
  /\ UNCHANGED <<uiVars, pc, clock, renderCycle, persistentCache, clientVars,
                 comparisonVars, forecastVars, simulatorVars, riskVars,
                 volatilityData, mergeVars, corrVars, statVars, dashVars,
                 analyticsVars>>

\* The entry unstable_cache stores for a key, in place of the one it held.
Stored(cache, optionsKey, value, now) ==
  {e \in cache : e.key # optionsKey}
    \cup {[key |-> optionsKey, value |-> value, storedAt |-> now]}

\* getCachedDashboardData(options): an entry younger than the revalidation
\* period is served; otherwise the wrapped function is called and what it
\* resolves with is stored.
GetCachedDashboardData ==
  /\ pc = "serving"
  /\ Len(requesters) < MaxRequesters
  /\ \E options \in DashboardRequests :
       LET fresh == FreshEntries(persistentCache, OptionsKeyOf(options), clock)
           memoized == MemoizedRun(runs, renderCycle, OptionsKeyOf(options))
       IN IF fresh # {}
          THEN /\ requesters' =
                    Append(requesters,
                           Requester("getCachedDashboardData", options, 0, FALSE,
                                     (CHOOSE e \in fresh : TRUE).value))
               /\ UNCHANGED <<runs, persistentCache>>
          ELSE /\ CallDeduplicated("getCachedDashboardData", options)
               /\ persistentCache' =
                    IF memoized # 0 /\ runs[memoized].settled
                    THEN Stored(persistentCache, OptionsKeyOf(options),
                                runs[memoized].value, clock)
                    ELSE persistentCache
  /\ UNCHANGED <<uiVars, pc, clock, renderCycle, clientVars, comparisonVars,
                 forecastVars, simulatorVars, riskVars, volatilityData,
                 mergeVars, corrVars, statVars, dashVars, analyticsVars>>

\* A run of getDashboardDataInternal returns: its promise resolves for every
\* caller that holds it, and unstable_cache stores the value for those that
\* came through getCachedDashboardData.
RunSettles ==
  /\ pc = "serving"
  /\ \E r \in 1..Len(runs), value \in DashboardResults :
       /\ ~runs[r].settled
       /\ runs' = [runs EXCEPT ![r].settled = TRUE, ![r].settledAt = clock,
                               ![r].value = value]
       /\ persistentCache' =
            IF \E i \in 1..Len(requesters) :
                 requesters[i].run = r /\ requesters[i].via = "getCachedDashboardData"
            THEN Stored(persistentCache, runs[r].key, value, clock)
            ELSE persistentCache
  /\ UNCHANGED <<uiVars, pc, clock, renderCycle, requesters, clientVars,
                 comparisonVars, forecastVars, simulatorVars, riskVars,
                 volatilityData, mergeVars, corrVars, statVars, dashVars,
                 analyticsVars>>

\* Time passes.
Tick ==
  /\ pc = "serving"
  /\ clock < MaxTicks * TickSeconds
  /\ clock' = clock + TickSeconds
  /\ UNCHANGED <<uiVars, pc, renderCycle, runs, persistentCache, requesters,
                 clientVars, comparisonVars, forecastVars, simulatorVars,
                 riskVars, volatilityData, mergeVars, corrVars, statVars,
                 dashVars, analyticsVars>>

\* The server takes up another request: cache() memoizes per render cycle.
NewRenderCycle ==
  /\ pc = "serving"
  /\ renderCycle < MaxCycles
  /\ renderCycle' = renderCycle + 1
  /\ UNCHANGED <<uiVars, pc, clock, runs, persistentCache, requesters, clientVars,
                 comparisonVars, forecastVars, simulatorVars, riskVars,
                 volatilityData, mergeVars, corrVars, statVars, dashVars,
                 analyticsVars>>

NextCache ==
  \/ GetDashboardData
  \/ GetCachedDashboardData
  \/ RunSettles
  \/ Tick
  \/ NewRenderCycle

SpecCache == InitCache /\ [][NextCache]_vars

\* ------------------------------------------------------------------------
\* SimulatorDashboard: requests in flight settle in any order
\* ------------------------------------------------------------------------
\* Most getSimulatorData calls in flight at once.
MaxInFlight == 3

\* What getSimulatorData({ scenario, days: 14 }) resolves with: the simulation
\* of the scenario, or the empty data of the scenario.
ServerResponses(scenario) ==
  { getEmptySimulatorData(scenario, DashboardSimulatorDays),
    getSimulatorDataInternal(SimulatorOptions(scenario, DashboardSimulatorDays),
                             <<>>, <<>>,
                             [i \in 1..DashboardSimulatorDays |-> Zero]) }

InitDashboard ==
  /\ pc = "rendered"
  /\ flareIntensity = InitialIntensity
  /\ displayedData = NoData
  /\ loading = TRUE
  /\ currentScenario = "baseline"
  /\ inFlight = <<>>
  /\ ClientIdle /\ ComparisonIdle /\ CacheIdle
  /\ ForecastIdle /\ SimulatorIdle /\ RiskIdle /\ VolatilityIdle
  /\ MergeIdle /\ CorrIdle /\ StatIdle /\ DashIdle /\ AnalyticsIdle

\* The two effects of the first render, in order: the first calls
\* fetchSimulatorDataFromServer(), the second derives the scenario of the
\* intensity and, as it differs from currentScenario, sets it and calls
\* fetchSimulatorDataFromServer(scenario). Each call sets loading and awaits
\* getSimulatorData.
Mount ==
  /\ pc = "rendered"
  /\ loading' = TRUE
  /\ IF determineScenario(flareIntensity) # currentScenario
     THEN /\ currentScenario' = determineScenario(flareIntensity)
          /\ inFlight' = <<"baseline", determineScenario(flareIntensity)>>
     ELSE /\ inFlight' = <<"baseline">>
          /\ UNCHANGED currentScenario
  /\ pc' = "mounted"
  /\ UNCHANGED <<flareIntensity, displayedData, clientVars, comparisonVars, cacheVars,
                 forecastVars, simulatorVars, riskVars, volatilityData,
                 mergeVars, corrVars, statVars, dashVars, analyticsVars>>

\* onValueChange of the slider, shown when loading is false, and the effect
\* on [flareIntensity] that follows the render.
MoveSlider ==
  /\ pc = "mounted"
  /\ ~loading
  /\ \E value \in SliderValues \ {flareIntensity} :
       /\ flareIntensity' = value
       /\ IF determineScenario(value) # currentScenario
          THEN /\ Len(inFlight) < MaxInFlight
               /\ currentScenario' = determineScenario(value)
               /\ loading' = TRUE
               /\ inFlight' = Append(inFlight, determineScenario(value))
          ELSE UNCHANGED <<currentScenario, loading, inFlight>>
  /\ UNCHANGED <<pc, displayedData, clientVars, comparisonVars, cacheVars,
                 forecastVars, simulatorVars, riskVars, volatilityData,
                 mergeVars, corrVars, statVars, dashVars, analyticsVars>>

\* onClick of the Refresh Simulation button, shown when loading is false.
ClickRefresh ==
  /\ pc = "mounted"
  /\ ~loading
  /\ Len(inFlight) < MaxInFlight
  /\ loading' = TRUE
  /\ inFlight' = Append(inFlight, currentScenario)
  /\ UNCHANGED <<pc, flareIntensity, displayedData, currentScenario, clientVars,
                 comparisonVars, cacheVars, forecastVars, simulatorVars,
                 riskVars, volatilityData, mergeVars, corrVars, statVars,
                 dashVars, analyticsVars>>

RemoveAt(s, k) == SubSeq(s, 1, k - 1) \o SubSeq(s, k + 1, Len(s))

\* await getSimulatorData(...) resolves in one of the calls in flight:
\* setData(result), then setLoading(false) in the finally.
RequestResolves ==
  /\ pc = "mounted"
  /\ \E k \in 1..Len(inFlight) :
       /\ \E result \in ServerResponses(inFlight[k]) : displayedData' = Data(result)
       /\ inFlight' = RemoveAt(inFlight, k)
  /\ loading' = FALSE
  /\ UNCHANGED <<pc, flareIntensity, currentScenario, clientVars,
                 comparisonVars, cacheVars, forecastVars, simulatorVars,
                 riskVars, volatilityData, mergeVars, corrVars, statVars,
                 dashVars, analyticsVars>>

\* It rejects (the request did not reach the server): the catch sets the
\* sample data, then setLoading(false) in the finally.
RequestRejects ==
  /\ pc = "mounted"
  /\ \E k \in 1..Len(inFlight) : inFlight' = RemoveAt(inFlight, k)
  /\ displayedData' = Data(SampleSimulatorData)
  /\ loading' = FALSE
  /\ UNCHANGED <<pc, flareIntensity, currentScenario, clientVars,
                 comparisonVars, cacheVars, forecastVars, simulatorVars,
                 riskVars, volatilityData, mergeVars, corrVars, statVars,
                 dashVars, analyticsVars>>

NextDashboard ==
  \/ Mount
  \/ MoveSlider
  \/ ClickRefresh
  \/ RequestResolves
  \/ RequestRejects

SpecDashboard == InitDashboard /\ [][NextDashboard]_vars

\* ------------------------------------------------------------------------
\* Reference notions the claims are stated with
\* ------------------------------------------------------------------------
\* v is a finite number.
FiniteNumber(v) == v.k = "fin"
\* d is a non-empty string.
NonEmptyString(d) == d.t = "string" /\ Len(d.s) > 0
\* String a sorts strictly before string b: a is a proper prefix of b, or the
\* two differ first at a position where a has the smaller character.
StrictlyBefore(a, b) ==
  \/ Len(a) < Len(b) /\ \A k \in 1..Len(a) : a[k] = b[k]
  \/ \E k \in 1..Len(a) :
       /\ k <= Len(b)
       /\ a[k] < b[k]
       /\ \A j \in 1..(k - 1) : a[j] = b[j]
Min(a, b) == IF a < b THEN a ELSE b

\* The flare input has a valid record for date d.
HasValidFlare(d) ==
  \E i \in 1..Len(flareData.items) :
    LET r == flareData.items[i]
    IN r.defined /\ r.date = d /\ NonEmptyString(d) /\ FiniteNumber(r.flare)
\* The stock input has a valid record for date d.
HasValidStock(d) ==
  \E i \in 1..Len(stockData.items) :
    LET r == stockData.items[i]
    IN /\ r.defined /\ r.date = d /\ NonEmptyString(d)
       /\ FiniteNumber(r.volatility) /\ FiniteNumber(r.volume)
\* Every date an input record or an output row carries.
DatesSeen ==
  {flareData.items[i].date : i \in 1..Len(flareData.items)}
  \cup {stockData.items[i].date : i \in 1..Len(stockData.items)}
  \cup {composedData.value[i].date : i \in 1..Len(composedData.value)}
Emitted(d) == \E i \in 1..Len(composedData.value) : composedData.value[i].date = d

\* C1: mergeDatasets emits a row for date d if and only if the flare input
\* has a record with the non-empty string date d and a finite flare value and
\* the stock input has a record with date d whose volatility and volume are
\* both finite: an intersection join.
C1_IntersectionJoin ==
  pc = "merged" =>
    \A d \in DatesSeen : Emitted(d) <=> (HasValidFlare(d) /\ HasValidStock(d))

\* C1 witness: a merge that emits a row while another date is valid on the
\* flare side only and a third date has only invalid records.
C1_Witness ==
  /\ pc = "merged"
  /\ Len(composedData.value) >= 1
  /\ \E d \in DatesSeen : ~Emitted(d) /\ HasValidFlare(d) /\ ~HasValidStock(d)

\* C2: the rows mergeDatasets returns are strictly increasing by date, no
\* date repeated, and there are at most min(|flares|, |stocks|) of them.
C2_SortedBounded ==
  pc = "merged" =>
    /\ \A i \in 1..Len(composedData.value), j \in 1..Len(composedData.value) :
         i < j => StrictlyBefore(composedData.value[i].date.s,
                                 composedData.value[j].date.s)
    /\ Len(composedData.value)
         <= Min(Len(flareData.items), Len(stockData.items))

\* C2 witness: two rows come out in the opposite order to the one in which
\* the flare input holds their dates.
C2_Witness ==
  /\ pc = "merged"
  /\ Len(composedData.value) >= 2
  /\ \E i \in 1..Len(flareData.items), j \in 1..Len(flareData.items) :
       /\ i < j
       /\ flareData.items[i].date = composedData.value[2].date
       /\ flareData.items[j].date = composedData.value[1].date

\* The first record of an input sequence that carries date d.
FirstWithDate(items, d) ==
  items[CHOOSE i \in 1..Len(items) :
          /\ items[i].date = d
          /\ \A j \in 1..(i - 1) : items[j].date # d]
\* The first valid flare record that carries date d.
FirstValidFlare(d) ==
  flareData.items[CHOOSE i \in 1..Len(flareData.items) :
    /\ flareData.items[i].date = d /\ FiniteNumber(flareData.items[i].flare)
    /\ \A j \in 1..(i - 1) :
         ~(flareData.items[j].date = d /\ FiniteNumber(flareData.items[j].flare))]
\* The first valid stock record that carries date d.
FirstValidStock(d) ==
  stockData.items[CHOOSE i \in 1..Len(stockData.items) :
    /\ stockData.items[i].date = d
    /\ FiniteNumber(stockData.items[i].volatility)
    /\ FiniteNumber(stockData.items[i].volume)
    /\ \A j \in 1..(i - 1) :
         ~(/\ stockData.items[j].date = d
           /\ FiniteNumber(stockData.items[j].volatility)
           /\ FiniteNumber(stockData.items[j].volume))]

\* C3 as stated: each emitted row takes flare from the first flare record
\* with its date and volatility and trades from the first stock record with
\* its date.
C3_FirstOccurrence ==
  pc = "merged" =>
    \A i \in 1..Len(composedData.value) :
      LET row == composedData.value[i]
      IN /\ row.flare = FirstWithDate(flareData.items, row.date).flare
         /\ row.volatility = FirstWithDate(stockData.items, row.date).volatility
         /\ row.trades = FirstWithDate(stockData.items, row.date).volume

\* C3 amended: each emitted row takes flare from the first valid flare
\* record with its date and volatility and trades from the first valid stock
\* record with its date; no other record with that date shows in the output.
C3_FirstValidOccurrence ==
  pc = "merged" =>
    \A i \in 1..Len(composedData.value) :
      LET row == composedData.value[i]
      IN /\ row.flare = FirstValidFlare(row.date).flare
         /\ row.volatility = FirstValidStock(row.date).volatility
         /\ row.trades = FirstValidStock(row.date).volume

\* C3 witness: a row is emitted for a date that two valid flare records with
\* different values carry.
C3_Witness ==
  /\ pc = "merged"
  /\ \E r \in 1..Len(composedData.value) :
       \E i \in 1..Len(flareData.items), j \in 1..Len(flareData.items) :
         /\ i < j
         /\ flareData.items[i].date = composedData.value[r].date
         /\ flareData.items[j].date = composedData.value[r].date
         /\ FiniteNumber(flareData.items[i].flare)
         /\ FiniteNumber(flareData.items[j].flare)
         /\ flareData.items[i].flare # flareData.items[j].flare

\* C9: mergeDatasets returns the empty sequence, without raising, whenever
\* either input is empty or missing.
C9_EmptyInput ==
  (/\ pc = "merged"
   /\ \/ ~flareData.present \/ ~stockData.present
      \/ Len(flareData.items) = 0 \/ Len(stockData.items) = 0)
  => composedData = Ok(<<>>)

\* C9 witness: a merge of a missing flare input with a stock input that holds
\* valid records.
C9_Witness ==
  /\ pc = "merged"
  /\ ~flareData.present
  /\ stockData.present
  /\ \E d \in DatesSeen : HasValidStock(d)

\* ------------------------------------------------------------------------
\* calculateCorrelation: what the claims are stated with
\* ------------------------------------------------------------------------
\* Both arguments are arrays of one length.
SameLength == x.present /\ y.present /\ Len(x.items) = Len(y.items)
\* The indices at which both x[i] and y[i] are finite numbers.
AlignedIndices ==
  IF SameLength
  THEN {i \in 1..Len(x.items) :
          FiniteNumber(x.items[i]) /\ FiniteNumber(y.items[i])}
  ELSE {}
\* The k-th of them, in increasing order.
NthAligned(k) ==
  CHOOSE i \in AlignedIndices :
    Cardinality({j \in AlignedIndices : j < i}) = k - 1
\* The pairs (x[i], y[i]) at those indices, in index order.
AlignedPairs ==
  [k \in 1..Cardinality(AlignedIndices) |->
     <<x.items[NthAligned(k)], y.items[NthAligned(k)]>>]
\* Series c (1 for x, 2 for y) takes one value only over the aligned pairs.
ZeroVariance(c) ==
  \A i \in 1..Len(AlignedPairs), j \in 1..Len(AlignedPairs) :
    AlignedPairs[i][c] = AlignedPairs[j][c]
\* v is a finite number between -1 and 1.
InUnitRange(v) == FiniteNumber(v) /\ fle(Num(-1), v) /\ fle(v, Num(1))
\* v is a finite number between 3/4 and 1: 1 up to the tolerance that suits a
\* significand of MantBits bits.
NearOne(v) == FiniteNumber(v) /\ 4 * v.v >= 3 * Unit /\ v.v <= Unit

\* C5: for two arrays of one length calculateCorrelation returns what the
\* coefficient's formula gives over exactly the pairs (x[i], y[i]) at the
\* indices i where both values are finite numbers, each x value paired with
\* the y value of its own index (and 0 when fewer than two such indices
\* exist).
C5_PairwiseByIndex ==
  (pc = "correlated" /\ SameLength) =>
    correlation =
      Ok(IF Len(AlignedPairs) < 2 THEN Zero ELSE Pearson(AlignedPairs))

\* C5 witness: an index invalid in x only is dropped from both series, two
\* pairs remain, and the result is 1, which pairing the remaining x values
\* with the first y values would not give.
C5_Witness ==
  /\ pc = "correlated"
  /\ SameLength
  /\ Len(AlignedPairs) = 2
  /\ \E i \in 1..Len(x.items) :
       /\ ~FiniteNumber(x.items[i]) /\ FiniteNumber(y.items[i])
       /\ \E j \in AlignedIndices : i < j
  /\ correlation = Ok(Num(1))
  /\ Pearson(ValidPairsIndependent(x.items, y.items)) # Num(1)

C7_Bounded ==
  pc = "correlated" =>
    ~correlation.threw /\ InUnitRange(correlation.value)

\* C8: when at least two valid pairs exist, x is not constant over them and
\* y = 2 * x holds at each of them, calculateCorrelation returns 1 up to
\* tolerance.
C8_PerfectLinear ==
  (/\ pc = "correlated"
   /\ SameLength
   /\ Len(AlignedPairs) >= 2
   /\ ~ZeroVariance(1)
   /\ \A k \in 1..Len(AlignedPairs) :
        AlignedPairs[k][2] = fmul(Num(2), AlignedPairs[k][1]))
  => NearOne(correlation.value)

\* ------------------------------------------------------------------------
\* calculateAverage, calculateMax, calculateSum: what the claim is stated with
\* ------------------------------------------------------------------------
\* The indices of the argument's finite numbers.
FiniteIndices ==
  {i \in 1..Len(values.items) : FiniteNumber(values.items[i])}
\* The k-th of them, in increasing order.
NthFinite(k) ==
  CHOOSE i \in FiniteIndices :
    Cardinality({j \in FiniteIndices : j < i}) = k - 1
\* The finite elements of the argument, in their order.
FiniteElements ==
  [k \in 1..Cardinality(FiniteIndices) |-> values.items[NthFinite(k)]]
RECURSIVE SumOfFirst(_, _)
\* The sum of the first n elements of s, added in order.
SumOfFirst(s, n) ==
  IF n = 0 THEN Zero ELSE fadd(SumOfFirst(s, n - 1), s[n])
RECURSIVE ExactSumOfFirst(_, _)
\* The same sum in the integers, in units.
ExactSumOfFirst(s, n) ==
  IF n = 0 THEN 0 ELSE ExactSumOfFirst(s, n - 1) + s[n].v
\* Every partial sum of s is a value the number format holds exactly.
ExactlySummable(s) ==
  \A n \in 1..Len(s) : Rnd(ExactSumOfFirst(s, n), 1) = Fin(ExactSumOfFirst(s, n))

AllStatsZero(stats) ==
  /\ stats.avgFlare = Zero
  /\ stats.avgVolatility = Zero
  /\ stats.totalTrades = Zero
  /\ stats.correlation = Zero
  /\ stats.maxFlare = Zero
  /\ stats.maxVolatility = Zero
\* Every field of DashboardData is there, each list a list.
WellFormed(data) ==
  /\ DOMAIN data = {"composedData", "correlationData", "distributionData",
                    "heatmapData", "stats"}
  /\ DOMAIN data.stats = {"avgFlare", "avgVolatility", "totalTrades",
                          "correlation", "maxFlare", "maxVolatility"}
  /\ Len(data.correlationData) = Len(data.composedData)
  /\ Len(data.heatmapData) = Len(data.composedData)
  /\ \A c \in 1..Len(data.distributionData) :
       data.distributionData[c].range = categories[c]

C11_NegativeMax ==
  (/\ pc = "max"
   /\ Len(FiniteElements) >= 1
   /\ \A k \in 1..Len(FiniteElements) : FiniteElements[k].v < 0)
  => /\ aggregate.value # Zero
     /\ aggregate.value.v < 0
     /\ \E k \in 1..Len(FiniteElements) : aggregate.value = FiniteElements[k]
     /\ \A k \in 1..Len(FiniteElements) :
          FiniteElements[k].v <= aggregate.value.v

\* C11 witness: the greatest of two different negative numbers, nothing else
\* in the argument, is the one nearer 0.
C11_Witness ==
  /\ pc = "max"
  /\ Len(values.items) = 2
  /\ Len(FiniteElements) = 2
  /\ FiniteElements[1].v < FiniteElements[2].v
  /\ FiniteElements[2].v < 0
  /\ aggregate = Ok(FiniteElements[2])

\* The band the claim gives a value of u units: Low below 2, Medium from 2 to
\* below 4, High from 4 to below 6, Extreme from 6 on, Low when negative.
BandOf(u) ==
  IF u < 0 THEN "Low"
  ELSE IF u < 2 * Unit THEN "Low"
  ELSE IF u < 4 * Unit THEN "Medium"
  ELSE IF u < 6 * Unit THEN "High"
  ELSE "Extreme"

\* C12: categorizeIntensity gives every argument exactly one of Low, Medium,
\* High, Extreme: the band of a finite number (2 is Medium, 4 High, 6
\* Extreme, a negative number Low) and Low for NaN, an infinity or a value
\* that is not a number.
C12_Categorize ==
  pc = "categorized" =>
    /\ category \in {"Low", "Medium", "High", "Extreme"}
    /\ category = IF FiniteNumber(intensity) THEN BandOf(intensity.v) ELSE "Low"

\* C12 witness: the argument 2, lower bound of its band, is Medium.
C12_Witness ==
  /\ pc = "categorized"
  /\ intensity = Fin(2 * Unit)
  /\ category = "Medium"

\* ------------------------------------------------------------------------
\* getAnalysisData, getDashboardData: what the claims are stated with
\* ------------------------------------------------------------------------
RECURSIVE SumOver(_, _)
\* The sum of f over the finite set S.
SumOver(f, S) ==
  IF S = {} THEN 0
  ELSE LET e == CHOOSE e \in S : TRUE IN f[e] + SumOver(f, S \ {e})
\* The rows whose flare value lies in band c.
RowsInBand(rows, c) ==
  {i \in 1..Len(rows) :
     (IF FiniteNumber(rows[i].flare) THEN BandOf(rows[i].flare.v) ELSE "Low") = c}
FourBuckets == {"Low", "Medium", "High", "Extreme"}

\* C13: the intensity distribution of getDashboardData and the
\* byIntensityRange of getAnalysisData hold all four buckets, each with the
\* number of rows whose flare is in its band, so the counts add up to the
\* number of rows.
C13_Distribution ==
  /\ pc = "dashboard" =>
       LET dist == dashboardData.value.distributionData
           rows == dashboardData.value.composedData
       IN /\ Len(dist) = 4
          /\ {dist[c].range : c \in 1..Len(dist)} = FourBuckets
          /\ \A c \in 1..Len(dist) :
               dist[c].count = Cardinality(RowsInBand(rows, dist[c].range))
          /\ SumOver([c \in 1..Len(dist) |-> dist[c].count], 1..Len(dist))
               = Len(rows)
  /\ pc = "analysed" =>
       LET byRange == analysisData.value.flareAnalysis.byIntensityRange
           rows == composedData.value
       IN /\ DOMAIN byRange = FourBuckets
          /\ \A c \in FourBuckets : byRange[c] = Cardinality(RowsInBand(rows, c))
          /\ SumOver(byRange, FourBuckets) = Len(rows)

\* C13 witness: a dashboard over three rows that fall in three bands, the
\* fourth bucket there with count 0.
C13_Witness ==
  /\ pc = "dashboard"
  /\ Len(dashboardData.value.composedData) = 3
  /\ LET dist == dashboardData.value.distributionData
     IN /\ Len(dist) = 4
        /\ Cardinality({c \in 1..4 : dist[c].count = 1}) = 3
        /\ \E c \in 1..4 : dist[c].count = 0

\* The volatility column of the merged rows.
VolatilityColumn ==
  [i \in 1..Len(composedData.value) |-> composedData.value[i].volatility]
\* The k-th smallest (k from 1) of a non-empty column of finite numbers.
KthSmallest(col, k) ==
  CHOOSE v \in {col[i] : i \in 1..Len(col)} :
    /\ Cardinality({i \in 1..Len(col) : col[i].v < v.v}) < k
    /\ Cardinality({i \in 1..Len(col) : col[i].v <= v.v}) >= k
\* The rows counted high against threshold t: volatility strictly greater.
HighAgainst(t) ==
  Cardinality({i \in 1..Len(VolatilityColumn) : VolatilityColumn[i].v > t.v})
\* The split the analysis reports is the one threshold t gives.
SplitIs(t) ==
  LET va == analysisData.value.volatilityAnalysis
  IN /\ va.highVolatilityDays = HighAgainst(t)
     /\ va.lowVolatilityDays = Len(VolatilityColumn) - HighAgainst(t)
     /\ va.highVolatilityDays + va.lowVolatilityDays = Len(VolatilityColumn)

\* C14 as stated: the threshold of the high/low split is the middle element
\* of the sorted volatility column, the lower of the two middle elements when
\* the length is even; a row is high when strictly above it, low otherwise.
C14_LowerMiddleSplit ==
  pc = "analysed" =>
    LET n == Len(VolatilityColumn)
    IN SplitIs(IF n = 0 THEN Zero
               ELSE KthSmallest(VolatilityColumn, ((n - 1) \div 2) + 1))

\* C14 amended: the threshold is the element at index floor(n/2), counted
\* from 0, of the sorted volatility column, which is the upper of the two
\* middle elements when the length is even (0 for no rows); a row is high
\* when strictly above it, low otherwise, and the two counts add up to n.
C14_UpperMiddleSplit ==
  pc = "analysed" =>
    LET n == Len(VolatilityColumn)
    IN SplitIs(IF n = 0 THEN Zero
               ELSE KthSmallest(VolatilityColumn, (n \div 2) + 1))

\* C14 witness: two rows of different volatility, none of them counted high.
C14_Witness ==
  /\ pc = "analysed"
  /\ Len(VolatilityColumn) = 2
  /\ VolatilityColumn[1] # VolatilityColumn[2]
  /\ analysisData.value.volatilityAnalysis.highVolatilityDays = 0
  /\ analysisData.value.volatilityAnalysis.lowVolatilityDays = 2

\* The first character of a flare record's class string, as the record has it.
LeadingChar(rec) == rec.class.s[1]
\* The same character in upper case.
UpperOf(c) ==
  IF c = "c" THEN "C" ELSE IF c = "m" THEN "M" ELSE IF c = "x" THEN "X" ELSE c
\* byClass counts the flare records under key(record), and nothing else.
CountsUnder(key(_)) ==
  LET byClass == analysisData.value.flareAnalysis.byClass
      recs == flareData.items
  IN /\ DOMAIN byClass = {key(recs[i]) : i \in 1..Len(recs)}
     /\ \A l \in DOMAIN byClass :
          byClass[l] = Cardinality({i \in 1..Len(recs) : key(recs[i]) = l})
     /\ SumOver(byClass, DOMAIN byClass) = Len(recs)

\* C18 as stated: analyzeFlares counts every flare record under the leading
\* character of its class string exactly as the record has it, and the
\* counts add up to the number of flare records.
C18_ByLeadingCharAsIs ==
  pc = "analysed" => CountsUnder(LeadingChar)

\* C18 amended: analyzeFlares counts every flare record under the leading
\* character of its class string turned to upper case, whatever the letter,
\* and the counts add up to the number of flare records.
C18_ByUpperCasedChar ==
  pc = "analysed" => CountsUnder(LAMBDA rec : UpperOf(LeadingChar(rec)))

\* C18 witness: a record of class m4 and one of class M2.5 are both counted
\* under M.
C18_Witness ==
  /\ pc = "analysed"
  /\ \E i \in 1..Len(flareData.items) : LeadingChar(flareData.items[i]) = "m"
  /\ \E i \in 1..Len(flareData.items) : LeadingChar(flareData.items[i]) = "M"
  /\ "M" \in DOMAIN analysisData.value.flareAnalysis.byClass
  /\ analysisData.value.flareAnalysis.byClass["M"] = 2

\* The class letters as written in capitals, and in either case.
Capitals == {"C", "M", "X"}
EitherCase == Capitals \cup {"c", "m", "x"}
\* String s is one of the given letters followed by a decimal numeral: one
\* digit or more, then possibly a point and digits.
ParsesAsClass(s, letters) ==
  /\ Len(s) >= 2
  /\ s[1] \in letters
  /\ \E p \in 3..(Len(s) + 1) :
       /\ \A i \in 2..(p - 1) : IsDigit(s[i])
       /\ p <= Len(s) => s[p] = "."
       /\ \A i \in (p + 1)..Len(s) : IsDigit(s[i])
\* Raw event e is well formed: its class parses with those letters and its
\* peak time is a parsable date.
WellFormedEvent(e, letters) ==
  /\ e.classType.t = "string"
  /\ ParsesAsClass(e.classType.s, letters)
  /\ e.peakTime.t = "string"
  /\ e.peakTime.valid
\* The indices of the well-formed raw events.
WellFormedIndices(letters) ==
  {i \in 1..Len(nasaRawEvents) : WellFormedEvent(nasaRawEvents[i], letters)}
\* The k-th of them, in increasing order.
NthWellFormed(letters, k) ==
  CHOOSE i \in WellFormedIndices(letters) :
    Cardinality({j \in WellFormedIndices(letters) : j < i}) = k - 1
\* The flare records that carry date d.
RecordsOn(d) == {i \in 1..Len(flareData.items) : flareData.items[i].date = d}

\* C19 as stated: no two flare records handed to the merge and to the
\* analytics carry the same date.
C19_OneRecordPerDay ==
  pc = "analysed" =>
    \A i \in 1..Len(flareData.items), j \in 1..Len(flareData.items) :
      i # j => flareData.items[i].date # flareData.items[j].date

\* C19 amended: the flare sequence holds one record per well-formed raw
\* event, so a day has as many records as well-formed events peaked on it;
\* one row per date is what the merge makes of it, the row of a date taking
\* the flare of the first record of that date.
C19_OneRecordPerEvent ==
  pc = "analysed" =>
    /\ Len(flareData.items) = Cardinality(WellFormedIndices(EitherCase))
    /\ \A day \in 0..MaxDays :
         Cardinality(RecordsOn(DateOfDay(day)))
           = Cardinality({i \in WellFormedIndices(EitherCase) :
                            nasaRawEvents[i].peakTime.day = day})
    /\ \A r \in 1..Len(composedData.value) :
         LET row == composedData.value[r]
             first == CHOOSE i \in RecordsOn(row.date) :
                        \A j \in RecordsOn(row.date) : i <= j
         IN /\ row.flare = flareData.items[first].flare
            /\ \A q \in 1..Len(composedData.value) :
                 q # r => composedData.value[q].date # row.date

\* C19 witness: two well-formed events of one day give two records with one
\* date, and the merge one row for it, with the flare of the first.
C19_Witness ==
  /\ pc = "analysed"
  /\ \E i \in 1..Len(flareData.items), j \in 1..Len(flareData.items) :
       /\ i < j
       /\ flareData.items[i].date = flareData.items[j].date
       /\ flareData.items[i].flare # flareData.items[j].flare
       /\ \E r \in 1..Len(composedData.value) :
            /\ composedData.value[r].date = flareData.items[i].date
            /\ composedData.value[r].flare = flareData.items[i].flare

RECURSIVE IntOf(_)
\* The natural number a sequence of digits writes in base ten.
IntOf(ds) ==
  IF ds = <<>> THEN 0
  ELSE IntOf(SubSeq(ds, 1, Len(ds) - 1)) * 10 + DigitVal(ds[Len(ds)])
RECURSIVE PowerOfTen(_)
PowerOfTen(n) == IF n = 0 THEN 1 ELSE 10 * PowerOfTen(n - 1)
\* The number nearest to the decimal numeral that follows the class letter.
MagnitudeOf(s) ==
  LET numeral == SubSeq(s, 2, Len(s))
      decimals == IF \E p \in 1..Len(numeral) : numeral[p] = "."
                  THEN Len(numeral)
                         - (CHOOSE p \in 1..Len(numeral) : numeral[p] = ".")
                  ELSE 0
  IN Rnd(IntOf(SelectSeq(numeral, IsDigit)) * Unit, PowerOfTen(decimals))
\* The multiplier of a class letter: C 0.1, M 1, X 10.
MultiplierOf(letter) ==
  IF letter = "C" THEN Rnd(Unit, 10)
  ELSE IF letter = "M" THEN Rnd(Unit, 1) ELSE Rnd(10 * Unit, 1)
\* The flare record of well-formed raw event e.
RecordOf(e) ==
  [defined |-> TRUE,
   date |-> DateOfDay(e.peakTime.day),
   flare |-> fmul(MagnitudeOf(e.classType.s),
                  MultiplierOf(UpperOf(e.classType.s[1]))),
   class |-> e.classType,
   peakTime |-> e.peakTime]
\* The flare records are those of the well-formed raw events, one each, in
\* the order of the events.
RecordsAreWellFormedEvents(letters) ==
  /\ Len(flareData.items) = Cardinality(WellFormedIndices(letters))
  /\ \A k \in 1..Len(flareData.items) :
       k <= Cardinality(WellFormedIndices(letters)) =>
         flareData.items[k] = RecordOf(nasaRawEvents[NthWellFormed(letters, k)])

SeriesRows == IF timeSeriesData.present THEN timeSeriesData.items ELSE <<>>
\* The covariance of flare and volatility over rows from..to, times the
\* square of their number: computed exactly, on the integer units.
ExactCovariance(from, to) ==
  LET idx == from..to
      fl == [i \in idx |-> SeriesRows[i].flare.v]
      vo == [i \in idx |-> SeriesRows[i].volatility.v]
  IN Cardinality(idx) * SumOver([i \in idx |-> fl[i] * vo[i]], idx)
       - SumOver(fl, idx) * SumOver(vo, idx)

\* C16 as stated: the rolling correlation with window w over n records has
\* n - w + 1 entries (none when n < w); entry i carries the dates of records
\* i and i+w-1 and the signed Pearson correlation of the window, a number of
\* [-1, 1] whose sign is the sign of the window's covariance.
C16_RollingSignedPearson ==
  pc = "rolling" =>
    LET n == Len(SeriesRows)
        w == correlationWindow
        out == correlationOverTime.value
    IN /\ Len(out) = (IF n >= w THEN n - w + 1 ELSE 0)
       /\ \A i \in 1..Len(out) :
            /\ out[i].period.startDate = SeriesRows[i].date
            /\ out[i].period.endDate = SeriesRows[i + w - 1].date
            /\ InUnitRange(out[i].correlation)
            /\ ExactCovariance(i, i + w - 1) < 0 => out[i].correlation.v <= 0
            /\ ExactCovariance(i, i + w - 1) > 0 => out[i].correlation.v >= 0

\* C17 as stated: the lag correlation for lag k over n records is 0 when
\* n < k + 2, and otherwise what calculateCorrelation gives for the flares of
\* records 0 .. n-k-1 against the volatilities of records k .. n-1.
C17_LagIsCalculateCorrelation ==
  pc = "lag" =>
    LET n == Len(SeriesRows)
        k == lagDays
    IN IF n < k + 2 THEN lagCorrelation.value = Zero
       ELSE lagCorrelation.value =
              calculateCorrelation(
                Arr([i \in 1..(n - k) |-> SeriesRows[i].flare]),
                Arr([i \in 1..(n - k) |-> SeriesRows[i + k].volatility]))

\* The most recent values of a series, at most ten.
RecentOf(series) ==
  [i \in 1..Min(Len(series), 10) |-> series[Len(series) - Min(Len(series), 10) + i]]
\* The score of one series, from that series alone: its recent values split
\* in half, +1 when the average of the second half exceeds 1.1 times the
\* average of the first, -1 when it is below 0.9 times it, else 0.
ScoreOf(series) ==
  LET recent == RecentOf(series)
      half == Len(recent) \div 2
      first == calculateAverage(Arr(SubSeq(recent, 1, half)))
      second == calculateAverage(Arr(SubSeq(recent, half + 1, Len(recent))))
  IN IF flt(fmul(first, Rnd(11 * Unit, 10)), second) THEN 1
     ELSE IF flt(second, fmul(first, Rnd(9 * Unit, 10))) THEN -1 ELSE 0

\* C15 as stated: analyzeTrend gives stable when either series has fewer
\* than 2 points; otherwise it scores the flare series and the volatility
\* series each on its own recent values split in half, and gives rising,
\* declining or stable as the sum of the two scores is positive, negative
\* or zero.
C15_IndependentScores ==
  pc = "trend" =>
    trend = (IF Len(flares) < 2 \/ Len(volatility) < 2 THEN "stable"
             ELSE IF ScoreOf(flares) + ScoreOf(volatility) > 0 THEN "rising"
             ELSE IF ScoreOf(flares) + ScoreOf(volatility) < 0 THEN "declining"
             ELSE "stable")

\* ------------------------------------------------------------------------
\* The confidence score of a forecast
\* ------------------------------------------------------------------------
\* max(0.5, 1 - 0.05 * n), computed in hundredths.
FlooredConfidence(n) == IF 100 - 5 * n < 50 THEN Dec(50) ELSE Dec(100 - 5 * n)
\* The days a request asks for: 7 when it names none, or 0.
RequestedDays ==
  IF forecastOptions = NoOptions \/ forecastOptions.days = 0 THEN 7
  ELSE forecastOptions.days
\* The forecast was computed: nothing threw on the way.
ForecastComputed == pc = "forecast" /\ ~calculateVolatilityThrows(stockQuotes)
ForecastFellBack == pc = "forecast" /\ calculateVolatilityThrows(stockQuotes)

Lower(p) == p.confidenceInterval[1]
Upper(p) == p.confidenceInterval[2]
Brackets(p) ==
  0 <= Lower(p) /\ Lower(p) <= p.predictedVolatility
                /\ p.predictedVolatility <= Upper(p)
\* (upper - predictedVolatility) / predictedVolatility, which is a number
\* only when predictedVolatility is not 0.
HasRelativeHalfWidth(p) == p.predictedVolatility > 0
RelativeHalfWidth(p) ==
  DecDiv(Upper(p) - p.predictedVolatility, p.predictedVolatility)
\* Rounding moves a relative half-width by at most one unit, a difference of
\* two differences by at most four.
LinearIn(predictions) ==
  \A i \in 1..(Len(predictions) - 2) :
    Abs((RelativeHalfWidth(predictions[i + 2])
           - RelativeHalfWidth(predictions[i + 1]))
        - (RelativeHalfWidth(predictions[i + 1])
             - RelativeHalfWidth(predictions[i]))) <= 4
StrictlyWidening(predictions) ==
  \A i \in 1..(Len(predictions) - 1) :
    RelativeHalfWidth(predictions[i]) < RelativeHalfWidth(predictions[i + 1])

\* C22: every forecast point's interval brackets the prediction, 0 <= lower
\* <= predictedVolatility <= upper, and its half-width relative to
\* predictedVolatility is a strictly increasing linear function of the day
\* offset.
C22_IntervalBracketsAndWidens ==
  pc = "forecast" =>
    /\ \A i \in 1..Len(forecastData.predictions) :
         /\ Brackets(forecastData.predictions[i])
         /\ HasRelativeHalfWidth(forecastData.predictions[i])
    /\ StrictlyWidening(forecastData.predictions)
    /\ LinearIn(forecastData.predictions)

\* ------------------------------------------------------------------------
\* The simulated points and the risk level
\* ------------------------------------------------------------------------
\* max(0.5, 1 - 0.03 * i), computed in hundredths.
FlooredPointConfidence(i) ==
  IF 100 - 3 * i < 50 THEN Dec(50) ELSE Dec(100 - 3 * i)
SimulationComputed ==
  pc = "simulated" /\ ~calculateVolatilityThrows(stockQuotes)
SimulatedDays ==
  IF simulatorOptions.days = 0 THEN 14 ELSE simulatorOptions.days

RiskScoreOf(flareAverage, volatilityAverage) ==
  fadd(fmul(flareAverage, Fin(Unit \div 2)), fmul(volatilityAverage, Fin(Unit \div 2)))
\* The level the claim gives a score that is a number: the thresholds 10, 5
\* and 2 are compared in units; an infinity is above or below all of them.
LevelOfScore(score) ==
  IF score.k = "inf" THEN (IF score.v > 0 THEN "extreme" ELSE "low")
  ELSE IF score.v > 10 * Unit THEN "extreme"
  ELSE IF score.v > 5 * Unit THEN "high"
  ELSE IF score.v > 2 * Unit THEN "medium"
  ELSE "low"
RiskRank(level) ==
  IF level = "low" THEN 0 ELSE IF level = "medium" THEN 1
  ELSE IF level = "high" THEN 2 ELSE 3

\* C24: determineRiskLevel returns one of low, medium, high, extreme for any
\* two averages: extreme when the score 0.5 * avgFlare + 0.5 * avgVolatility
\* is above 10, high when above 5 and at most 10, medium when above 2 and at
\* most 5, low when at most 2; a greater score never gives a lower level.
C24_RiskLevelOfScore ==
  pc = "risk" =>
    /\ riskLevel \in {"low", "medium", "high", "extreme"}
    /\ ~IsNaN(RiskScoreOf(avgFlare, avgVolatility)) =>
         riskLevel = LevelOfScore(RiskScoreOf(avgFlare, avgVolatility))
    /\ \A other \in AverageDomain :
         flt(RiskScoreOf(other, avgVolatility), RiskScoreOf(avgFlare, avgVolatility))
           => RiskRank(determineRiskLevel(other, avgVolatility)) <= RiskRank(riskLevel)

\* C24 witness: averages 12 and 8 have the score 10, which is high, not
\* extreme.
C24_Witness ==
  /\ pc = "risk"
  /\ avgFlare = Num(12)
  /\ avgVolatility = Num(8)
  /\ RiskScoreOf(avgFlare, avgVolatility) = Num(10)
  /\ riskLevel = "high"

\* ------------------------------------------------------------------------
\* The volatility of a quote
\* ------------------------------------------------------------------------
\* |high - low| / close * 100, 0 when close <= 0
IntradayRange(quote) ==
  IF flt(Zero, quote.close)
  THEN fmul(fdiv(fabs(fsub(quote.high, quote.low)), quote.close), Num(100))
  ELSE Zero
\* |close_i - close_(i-1)| / close_(i-1) * 100, 0 for the first quote or when
\* the previous close <= 0
DayOverDayChange(quotes, i) ==
  IF i > 1 /\ flt(Zero, quotes[i - 1].close)
  THEN fmul(fdiv(fabs(fsub(quotes[i].close, quotes[i - 1].close)),
                 quotes[i - 1].close), Num(100))
  ELSE Zero
FiniteFields(quote) ==
  /\ FiniteNumber(quote.high) /\ FiniteNumber(quote.low)
  /\ FiniteNumber(quote.close) /\ FiniteNumber(quote.volume)

\* C25: calculateVolatility returns one StockData per input quote, in input
\* order, whose volatility is the greater of the intraday range and the
\* day-over-day change, and is not negative when the quote's fields are
\* finite.
C25_OneStockDataPerQuote ==
  pc = "volatility" =>
    /\ ~volatilityData.threw
    /\ Len(volatilityData.value) = Len(stockQuotes)
    /\ \A i \in 1..Len(stockQuotes) :
         /\ volatilityData.value[i].close = stockQuotes[i].close
         /\ volatilityData.value[i].volume = stockQuotes[i].volume
         /\ volatilityData.value[i].volatility =
              fmax(IntradayRange(stockQuotes[i]), DayOverDayChange(stockQuotes, i))
         /\ FiniteFields(stockQuotes[i]) =>
              fle(Zero, volatilityData.value[i].volatility)

\* ------------------------------------------------------------------------
\* C26
\* ------------------------------------------------------------------------
FixedOrder == <<"yahoo", "alphavantage", "finnhub">>
PositionIn(order, provider) == CHOOSE k \in 1..Len(order) : order[k] = provider
\* The providers of the fixed order other than the primary one.
Remaining(primary) == {FixedOrder[k] : k \in 1..Len(FixedOrder)} \ {primary}
CallInProgress == pc \in {"primary", "fallback", "returned"} /\ validateStockSymbol(requestSymbol).valid
\* The primary provider first, then remaining providers in the fixed order
\* with none passed over, and none twice.
TriedInFallbackOrder ==
  /\ Len(attemptedProviders) >= 1
  /\ attemptedProviders[1] = configProvider
  /\ \A i \in 2..Len(attemptedProviders) :
       /\ attemptedProviders[i] \in Remaining(configProvider)
       /\ \A p \in Remaining(configProvider) :
            PositionIn(FixedOrder, p) < PositionIn(FixedOrder, attemptedProviders[i])
              <=> \E j \in 2..(i - 1) : attemptedProviders[j] = p
  /\ \A i, j \in 1..Len(attemptedProviders) :
       i # j => attemptedProviders[i] # attemptedProviders[j]
\* Every provider tried before the last one has failed.
TriedOnlyAfterFailure ==
  /\ Len(attemptOutcomes) \in {Len(attemptedProviders) - 1, Len(attemptedProviders)}
  /\ \A i \in 1..(Len(attemptedProviders) - 1) : attemptOutcomes[i].threw
\* The call has returned the quotes of the provider that returned, or the
\* empty array after every provider failed.
ReturnedFirstSuccess ==
  pc = "returned" =>
    /\ Len(attemptOutcomes) = Len(attemptedProviders)
    /\ IF attemptOutcomes[Len(attemptOutcomes)].threw
       THEN /\ Len(attemptedProviders) = 1 + Cardinality(Remaining(configProvider))
            /\ stockResult = Ok(<<>>)
       ELSE stockResult = Ok(attemptOutcomes[Len(attemptOutcomes)].value)
\* A step tries no provider, or starts a call, or tries one more provider
\* after the one before it failed.
TriesOneAtATime ==
  \/ attemptedProviders' = attemptedProviders
  \/ pc \in {"client", "returned"}
  \/ /\ \E p \in Remaining(configProvider) :
          attemptedProviders' = Append(attemptedProviders, p)
     /\ Len(attemptOutcomes') = Len(attemptedProviders)
     /\ attemptOutcomes'[Len(attemptedProviders)].threw

\* C26: for a valid symbol getStockData tries the configured primary provider
\* first and, only after it failed, the remaining providers one at a time in
\* the order yahoo, alphavantage, finnhub; no provider is tried twice; the
\* first provider that returns ends the sequence and its quotes are returned;
\* when every provider failed the result is the empty array; the call never
\* throws.
C26_ProviderFallbackOrder ==
  /\ [](~stockResult.threw)
  /\ [](CallInProgress =>
          TriedInFallbackOrder /\ TriedOnlyAfterFailure /\ ReturnedFirstSuccess)
  /\ [][TriesOneAtATime]_vars

\* The primary provider alphavantage and then yahoo failed, and finnhub's
\* quotes were returned.
C26_Witness ==
  /\ pc = "returned"
  /\ configProvider = "alphavantage"
  /\ attemptedProviders = <<"alphavantage", "yahoo", "finnhub">>
  /\ attemptOutcomes[1].threw /\ attemptOutcomes[2].threw
  /\ ~attemptOutcomes[3].threw
  /\ stockResult = Ok(<<FlatQuote(1), WideQuote(2)>>)

\* ------------------------------------------------------------------------
\* C27
\* ------------------------------------------------------------------------
\* The symbols of the request: those it names, or the three defaults.
RequestedSymbols ==
  IF comparisonOptions.given THEN comparisonOptions.symbols
  ELSE <<"AAPL", "MSFT", "GOOGL">>
\* The fetch of the symbol at position i failed: its function reported no
\* success, or it got no quotes.
FetchFailed(i) ==
  \/ ~symbolPromises[i].value.success
  \/ symbolPromises[i].value.stockData = <<>>
AllZero(comparison) ==
  /\ comparison.avgVolatility = Zero /\ comparison.maxVolatility = Zero
  /\ comparison.avgClose = Zero /\ comparison.maxClose = Zero
  /\ comparison.totalVolume = Zero /\ comparison.dataPoints = 0

\* C27: the comparisons returned by getComparisonData are as many as the
\* symbols requested and the i-th is that of the i-th symbol, in whatever order
\* the fetches completed; a symbol whose fetch failed has an all-zero entry at
\* its own position.
C27_ComparisonsInInputOrder ==
  pc = "compared" =>
    /\ Len(comparisonData.comparisons) = Len(RequestedSymbols)
    /\ \A i \in 1..Len(RequestedSymbols) :
         /\ comparisonData.comparisons[i].symbol = RequestedSymbols[i]
         /\ FetchFailed(i) => AllZero(comparisonData.comparisons[i])
         /\ ~FetchFailed(i) => comparisonData.comparisons[i].dataPoints > 0

\* Three symbols whose fetches completed last to first, the middle one
\* failing in calculateVolatility.
C27_Witness ==
  /\ pc = "compared"
  /\ comparisonOptions = ComparisonOptions(<<"MSFT", "AAPL", "MSFT">>)
  /\ completionOrder = <<3, 2, 1>>
  /\ symbolPromises[1].value.success /\ symbolPromises[1].value.stockData # <<>>
  /\ ~symbolPromises[2].value.success
  /\ symbolPromises[3].value.stockData = <<>>
  /\ comparisonData.comparisons[1].dataPoints = 2

\* ------------------------------------------------------------------------
\* C28
\* ------------------------------------------------------------------------
\* Two options ask for identical data: the same startDate, endDate and
\* stockSymbol values.
IdenticalData(options, other) ==
  \A name \in {"startDate", "endDate", "stockSymbol"} :
    OptionValue(options, name) = OptionValue(other, name)
\* Calls i and j of getDashboardData are made together, in one render cycle
\* at one time, for identical data.
SimultaneousIdentical(i, j) ==
  /\ requesters[i].via = "getDashboardData"
  /\ requesters[j].via = "getDashboardData"
  /\ requesters[i].cycle = requesters[j].cycle
  /\ requesters[i].calledAt = requesters[j].calledAt
  /\ IdenticalData(requesters[i].options, requesters[j].options)

\* C28: simultaneous getDashboardData requests for identical data share one
\* run of getDashboardDataInternal (one NASA call and one stock call) and
\* receive that run's result.
C28_IdenticalRequestsShareOneRun ==
  \A i, j \in 1..Len(requesters) :
    SimultaneousIdentical(i, j) =>
      /\ requesters[i].run = requesters[j].run
      /\ Cardinality({k \in {i, j} : requesters[k].startedRun}) <= 1

\* ------------------------------------------------------------------------
\* C29
\* ------------------------------------------------------------------------
\* Call i of getDashboardData had completed when call j, with the same
\* options, was made later within the revalidation period.
CompletedShortlyBefore(i, j) ==
  /\ requesters[i].via = "getDashboardData"
  /\ requesters[j].via = "getDashboardData"
  /\ requesters[i].options = requesters[j].options
  /\ requesters[i].run # 0
  /\ runs[requesters[i].run].settled
  /\ runs[requesters[i].run].settledAt < requesters[j].calledAt
  /\ requesters[j].calledAt - runs[requesters[i].run].settledAt < 1800

\* C29: a getDashboardData call made within 1800 seconds after a call with
\* the same options has completed is served what that call stored and starts
\* no run of getDashboardDataInternal, so no NASA or stock call.
C29_LaterCallServedFromCache ==
  \A i, j \in 1..Len(requesters) :
    CompletedShortlyBefore(i, j) =>
      /\ ~requesters[j].startedRun
      /\ requesters[j].run \in {0, requesters[i].run}

\* ------------------------------------------------------------------------
\* C30
\* ------------------------------------------------------------------------
\* C30: in SimulatorDashboard, once every getSimulatorData request has
\* settled the data displayed is that of the current scenario, which is the
\* scenario of the slider's intensity; and loading is false only when no
\* request is in flight.
C30_DisplayedDataOfCurrentScenario ==
  pc = "mounted" =>
    /\ inFlight = <<>> =>
         /\ displayedData.present
         /\ displayedData.value.scenario = currentScenario
         /\ currentScenario = determineScenario(flareIntensity)
    /\ ~loading => inFlight = <<>>

====
